---- MODULE Spec2Model ----
(***************************************************************************)
(* Model of the aniper executor: the risk module (risk.rs), the            *)
(* kill-switch listener (main.rs), the trader (trader.rs), the classifier  *)
(* (classifier.rs) and the log-stream subscribers (ws_feed.rs).            *)
(*                                                                         *)
(* Real numbers are fixed-point integers: balances are whole USDC,         *)
(* slippage samples and the EMA are in units of 1/SlipScale, the second    *)
(* moment in units of 1/SlipScale^2.  Divisions round to nearest, the      *)
(* square root rounds down.  Liquidity (lp) is in units of 1/LpScale USD.  *)
(* Strings that the code inspects (mints, creators, platform names) are    *)
(* sequences of characters.                                                *)
(***************************************************************************)
EXTENDS Integers, Sequences, FiniteSets, TLC

(***************************************************************************)
(* Bounds of the model.                                                    *)
(***************************************************************************)
MaxKillSends == 18
MaxSamples == 6
MaxInputs == 2
MaxFrames == 3
MaxFileLines == 2
MaxStartSlot == 1
MaxStarted == 2

(***************************************************************************)
(* Program constants.                                                      *)
(***************************************************************************)
KillCapacity == 16
DefaultFloor == 300
DefaultK == 2
DefaultStopLossPercent == 25
WarmUp == 5
EmaN == 20
SlipScale == 1000
BenignRun == 29
EventsCapacity == 10000
SlippageCapacity == 256
LpScale == 100
EnrichedLp == 20000 * LpScale
ManualHolders == 1000
ManualLp == 999999 * LpScale
MinHolders == 50

EquityFloor == "EquityFloor"
SlippageKind == "Slippage"
PortfolioStopLoss == "PortfolioStopLoss"
KillSwitch == {EquityFloor, SlippageKind, PortfolioStopLoss}

NoLabel == "unmatched"
Labels == {"equity_floor", "slippage", "portfolio_stop_loss"}

(***************************************************************************)
(* Inputs from the environment.                                            *)
(***************************************************************************)
None == "none"
Nothing == <<>>
Some(v) == <<v>>
Option(S) == {Nothing} \cup {Some(v) : v \in S}
Get(o) == o[1]
Balances == {100, 300, 400}
LowBalance == 100
BalanceResults == Option(Balances)
FloorVals == {50, 300}
StopLossPercents == {25, 99}
SlipKs == {-1, 0, 2}
Samples == {-500, 0, 1}
BenignSample == 1
OutlierSample == -500

PumpFun == "PumpFun"
LetsBonk == "LetsBonk"
Platform == {PumpFun, LetsBonk}
M1 == <<"M", "1">>
BAD1 == <<"B", "A", "D", "1">>
BAD2 == <<"B", "A", "D", "2">>
BoNk == <<"x", "B", "o", "N", "k", "x">>
c1 == <<"c", "1">>
Mints == {M1, BAD1, BoNk}
Creators == {c1, BAD2}
Holders == {49, 50}
Lps == {0}
DENYLIST == {BAD1, BAD2}
LaunchEvent == [mint : Mints, creator : Creators, holders_60 : Holders,
                lp : Lps, platform : Platform]
GoodEvent == [mint |-> M1, creator |-> c1, holders_60 |-> 50, lp |-> 0,
              platform |-> PumpFun]
FeedEvents == {GoodEvent,
               [GoodEvent EXCEPT !.holders_60 = 49],
               [GoodEvent EXCEPT !.creator = BAD2],
               [GoodEvent EXCEPT !.mint = BAD1],
               [GoodEvent EXCEPT !.platform = LetsBonk],
               [GoodEvent EXCEPT !.mint = BoNk, !.platform = LetsBonk]}
ui == <<"u", "i">>
Sources == {ui}
Inlets == {"ws", "redis"}
Dup == "dup"
RedisCreator(source) == <<"r", "e", "d", "i", "s", "_">> \o source
LetsBonkName == <<"L", "e", "t", "s", "B", "o", "n", "k">>
PlatformNames == {LetsBonkName}
RedisTradeSignal == [action : {"buy", "sell"}, token : Mints, source : Sources,
                     platform : Option(PlatformNames)]
GoodSignal == [action |-> "buy", token |-> M1, source |-> ui, platform |-> Nothing]
SignalPayloads == Option({GoodSignal,
                          [GoodSignal EXCEPT !.action = "sell"],
                          [GoodSignal EXCEPT !.token = BAD1],
                          [GoodSignal EXCEPT !.platform = Some(LetsBonkName)]})
MAX_MSG_LEN == 65536
MAX_CONFIRMATION_SLOTS == 10
MaxSlot == MaxStartSlot + MAX_CONFIRMATION_SLOTS + 2
SmallCapacity == 1

\* A log line of a notification is the text "Program log: <prefix>: " followed
\* by the words of `rest` separated by white space, or, with prefix "none",
\* the words alone.  A word is a sequence of characters.
LogLine(prefix, rest) == [prefix |-> prefix, rest |-> rest]
Initialize2 == LogLine("none", << <<"initialize2">> >>)
LaunchLogs(mint, creator, holders, lp) ==
    <<Initialize2, LogLine("mint", mint), LogLine("creator", creator),
      LogLine("holders_60", holders), LogLine("lp", lp)>>
GoodLogs == LaunchLogs(<<M1>>, <<c1>>, << <<"5", "0">> >>, << <<"1", ".", "5">> >>)
\* A text frame: its length in bytes, whether it parses as a LogNotification,
\* its method, whether value.err is null, and value.logs.
GoodFrame == [len |-> 600, json |-> TRUE, method |-> "logsNotification",
              err_null |-> TRUE, logs |-> GoodLogs]
Frames == {GoodFrame,
           [GoodFrame EXCEPT !.len = MAX_MSG_LEN],
           [GoodFrame EXCEPT !.len = MAX_MSG_LEN + 1],
           [GoodFrame EXCEPT !.json = FALSE],
           [GoodFrame EXCEPT !.method = "slotNotification"],
           [GoodFrame EXCEPT !.err_null = FALSE],
           [GoodFrame EXCEPT !.logs = Tail(GoodLogs)],
           [GoodFrame EXCEPT !.logs = LaunchLogs(<<>>, <<c1>>, << <<"5", "0">> >>,
                                                 << <<"1", ".", "5">> >>)],
           [GoodFrame EXCEPT !.logs = LaunchLogs(<<M1>>, <<>>, << <<"5", "0">> >>,
                                                 << <<"1", ".", "5">> >>)],
           [GoodFrame EXCEPT !.logs = LaunchLogs(<<M1, c1>>, <<c1>>, << <<"x">> >>,
                                                 << <<"1", ".", "5">> >>)],
           [GoodFrame EXCEPT !.logs = LaunchLogs(<<M1>>, <<c1>>, << <<"5", "0">> >>,
                                                 << <<"1", ".">>, <<"x">> >>)],
           [GoodFrame EXCEPT !.logs = SubSeq(GoodLogs, 1, 3)],
           [GoodFrame EXCEPT !.logs = GoodLogs \o <<LogLine("holders_60", <<>>)>>]}
WsOutcomes == {"text", "close", "error", "other", "end"}
\* A line of a replay file: whether reading it succeeds, and the LaunchEvent
\* it decodes to, Nothing when it does not decode.
ReplayLines == {[ok |-> TRUE, ev |-> Some(GoodEvent)],
                [ok |-> TRUE, ev |-> Some([GoodEvent EXCEPT !.holders_60 = 49])],
                [ok |-> TRUE, ev |-> Nothing],
                [ok |-> FALSE, ev |-> Nothing]}
ReplayFiles == [opens : BOOLEAN,
                lines : UNION {[1..n -> ReplayLines] : n \in 0..MaxFileLines}]
Extensions == {"json", "jsonl", "parquet", "csv"}
ScoreHolders == {49, 50, 60}
ScoreLps == {30, 49, 50, 75}
ScoreInputs == [mint : Mints, creator : Creators, holders_60 : ScoreHolders,
                lp : ScoreLps, platform : Platform]
Thresholds == {10000 * LpScale, 30000 * LpScale}
GateLps == {0, 35000 * LpScale}
GateEvents == {[GoodEvent EXCEPT !.holders_60 = h, !.lp = l] : h \in Holders, l \in GateLps}
Prices == {2}
Primary == "primary"
SecondaryLists == {<<"s1", "s2">>}
Tips == {0, 1}
Legs == {"buy", "tp", "sl"}

VARIABLES
    redis_url,          \* REDIS_URL as risk::run found it: "unread" | "set" | "unset"
    risk_state,         \* "init" | "running" | "failed": risk::run
    eq_pc,              \* equity-floor guard: "unspawned" | "start" | "loop"
    floor,              \* equity-floor guard: floor
    sl_pc,              \* portfolio guard: "unspawned" | "start" | "loop" | "done"
    peak_equity,        \* portfolio guard: peak_equity
    initialized,        \* portfolio guard: initialized
    sl_bal,             \* portfolio guard: last successful reading
    stop_loss_percent,  \* portfolio guard: PORTFOLIO_STOP_LOSS_PERCENT
    ss_pc,              \* slippage sentinel: "unspawned" | "start" | "loop"
    ema, ema2,          \* slippage sentinel: first and second moment
    initialised,        \* slippage sentinel: initialised
    sample_count,       \* slippage sentinel: samples received
    k,                  \* slippage sentinel: k
    slip,               \* slippage sentinel: last sample
    threshold,          \* slippage sentinel: last threshold
    slippage_ch,        \* mpsc channel trader -> sentinel
    harness,            \* None | "any" | "s5": who feeds the slippage channel
    fed,                \* samples fed by the harness
    kill_q,             \* broadcast: values the listener has not yet seen
    kill_lagged,        \* broadcast: the listener's next value was overwritten
    kill_sent,          \* broadcast: send calls per kind
    l_pc,               \* listener: "recv" | "sleep" | "exited" | "ended"
    l_kind,             \* listener: kind received
    killswitch_total,   \* metric killswitch_total{kind}
    exit_code,          \* process exit status, Nothing while running
    t_pc,               \* trader: position in run / execute_trade, from "start";
                        \* "returned_err" | "returned_ok" | "panicked" at the end
    events,             \* mpsc channel feed -> trader
    arrived,            \* launch events enqueued so far
    trade_signals,      \* redis list trade_signals
    pushed,             \* manual signals pushed so far
    processed_events,   \* trader: DedupSet of (mint, creator)
    started,            \* per (key, inlet): receipts that started processing in
                        \* this window; per (key, Dup): receipts the dedup skipped
    liquidity_threshold_usd, \* RISK_CONFIG.liquidity_threshold_usd
    cur,                \* execute_trade: ev
    buy_price,          \* execute_trade: buy_swap.price
    tp_price,           \* execute_trade: tp_swap.price
    rpc_urls,           \* execute_trade: rpc_urls
    result,             \* execute_trade: "ok" | "err" once it returns
    exec_log,           \* execute_trade: what this execution has done so far
    trades_submitted,   \* metric trades_submitted{platform}
    trades_confirmed,   \* metric trades_confirmed{platform}
    guards,             \* trader: read guards on RISK_CONFIG the task holds
    s_pc,               \* sign_and_send: "idle" | "tip_blockhash" | "tip_send" | "send" | "returned"
    s_urls,             \* sign_and_send: urls
    tip_lamports,       \* sign_and_send: tip_lamports
    s_next,             \* sign_and_send: position of the for loop in urls
    tip_sent,           \* sign_and_send: <<url, accepted>> of each send of tip_tx so far
    tx_sent,            \* sign_and_send: <<url, accepted>> of each send of final_tx so far
    primary_sig,        \* sign_and_send: primary_sig, a signature named by its endpoint
    s_result,           \* sign_and_send: Some(signature) for Ok, Nothing for Err
    slot,               \* the slot counter of the RPC node
    w_pc,               \* wait_for_confirmation: "idle" | "poll" | "slot" | "sleep" | "returned"
    start_slot,         \* wait_for_confirmation: start_slot
    current,            \* wait_for_confirmation: current
    polled,             \* wait_for_confirmation: the last answer of confirm_transaction
    w_result,           \* wait_for_confirmation: None | "ok" | "timeout" | "rpc_err"
    events_open,        \* mpsc channel feed -> trader: a sender is left
    scored,             \* classifier: the event last scored, Nothing before
    score_out,          \* classifier: the score returned for it, in tenths
    wasm_module,        \* classifier: MODULE holds a compiled module
    ws_pc,              \* per platform, its subscriber task:
                        \* "connect" | "ack" | "reading" | "sending" | "retry"
    frame,              \* the text frame a subscriber read last, Nothing if none
    normalised,         \* what normalise_message returned for it
    frames_read,        \* results of ws.next() so far, all subscribers
    ws_pending,         \* per platform, the event its tx.send is waiting with
    confirmation,       \* subscribe_platform: the text frame taken as the confirmation
    rp_pc,              \* run_replay: "idle" | "reading" | "sending" |
                        \* "returned_ok" | "returned_err"
    rp_ext,             \* run_replay: extension of file_path
    rp_file,            \* run_replay: the file, whether it opens and its lines
    rp_next,            \* run_replay: index of the next line of the file
    rp_sent             \* run_replay: the events its sends have delivered

runVars == <<redis_url, risk_state>>
equityVars == <<eq_pc, floor>>
portfolioVars == <<sl_pc, peak_equity, initialized, sl_bal, stop_loss_percent>>
sentinelVars == <<ss_pc, ema, ema2, initialised, sample_count, k, slip, threshold>>
harnessVars == <<slippage_ch, harness, fed>>
riskVars == <<runVars, equityVars, portfolioVars>>
slipVars == <<sentinelVars, harnessVars>>
killVars == <<kill_q, kill_lagged, kill_sent>>
listenerVars == <<l_pc, l_kind, killswitch_total, exit_code>>
feedVars == <<events, arrived, trade_signals, pushed>>
traderVars == <<t_pc, processed_events, started, liquidity_threshold_usd, cur,
                buy_price, tp_price, rpc_urls, result, exec_log, trades_submitted,
                trades_confirmed, guards>>
classifierVars == <<scored, score_out, wasm_module>>
wsVars == <<ws_pc, frame, normalised, frames_read, ws_pending, confirmation>>
replayVars == <<rp_pc, rp_ext, rp_file, rp_next, rp_sent>>
sendVars == <<s_pc, s_urls, tip_lamports, s_next, tip_sent, tx_sent, primary_sig, s_result>>
confirmVars == <<slot, w_pc, start_slot, current, polled, w_result>>
rpcVars == <<sendVars, confirmVars>>
otherVars == <<events_open, classifierVars, wsVars, replayVars, rpcVars>>
vars == <<riskVars, slipVars, killVars, listenerVars, feedVars, traderVars, otherVars>>

(***************************************************************************)
(* Arithmetic helpers.                                                     *)
(***************************************************************************)
RoundDiv(n, d) == (2 * n + d) \div (2 * d)

Max(a, b) == IF a >= b THEN a ELSE b

RECURSIVE IsqrtIn(_, _, _)
IsqrtIn(v, lo, hi) ==
    IF lo >= hi
    THEN lo
    ELSE LET mid == (lo + hi + 1) \div 2
         IN IF mid * mid <= v THEN IsqrtIn(v, mid, hi) ELSE IsqrtIn(v, lo, mid - 1)

Isqrt(v) == IsqrtIn(v, 0, SlipScale)

SumSent == kill_sent[EquityFloor] + kill_sent[SlippageKind] + kill_sent[PortfolioStopLoss]

(***************************************************************************)
(* The process is alive until the listener calls exit.                     *)
(***************************************************************************)
Alive == l_pc # "exited"

(***************************************************************************)
(* tokio broadcast channel of main.rs: one receiver, owned by the listener *)
(* task for as long as that task runs.                                     *)
(***************************************************************************)
ReceiverOpen == l_pc \in {"recv", "sleep"}

BroadcastSend(kind) ==
    /\ SumSent < MaxKillSends
    /\ kill_sent' = [kill_sent EXCEPT ![kind] = @ + 1]
    /\ IF ~ReceiverOpen
       THEN UNCHANGED <<kill_q, kill_lagged>>
       ELSE IF Len(kill_q) < KillCapacity
            THEN /\ kill_q' = Append(kill_q, kind)
                 /\ UNCHANGED kill_lagged
            ELSE /\ kill_q' = Append(Tail(kill_q), kind)
                 /\ kill_lagged' = TRUE

NoSend == UNCHANGED killVars

(***************************************************************************)
(* risk::run: refuse to start without REDIS_URL, else spawn the guards.    *)
(***************************************************************************)
\* a variant of the REDIS_URL test that never refuses to start
RedisUrlNeverMissing(url) == FALSE

RedisUrlMissing(url) == url = "unset"

Spawned(url) == IF RedisUrlMissing(url) THEN "unspawned" ELSE "start"

RiskRun ==
    /\ Alive
    /\ risk_state = "init"
    /\ \E url \in {"set", "unset"} :
          /\ redis_url' = url
          /\ risk_state' = IF RedisUrlMissing(url) THEN "failed" ELSE "running"
          /\ eq_pc' = Spawned(url)
          /\ sl_pc' = Spawned(url)
          /\ ss_pc' = Spawned(url)
    /\ UNCHANGED <<floor, peak_equity, initialized, sl_bal, stop_loss_percent>>
    /\ UNCHANGED <<ema, ema2, initialised, sample_count, k, slip, threshold>>
    /\ UNCHANGED <<harnessVars, killVars, listenerVars, feedVars, traderVars>>
    /\ UNCHANGED otherVars

(***************************************************************************)
(* Equity-floor guard: the first read of the floor, then one tick of its   *)
(* loop per step.                                                          *)
(***************************************************************************)
EquityStart ==
    /\ Alive
    /\ eq_pc = "start"
    /\ eq_pc' = "loop"
    /\ \E f \in Option(FloorVals) :
          floor' = IF f # Nothing THEN Get(f) ELSE DefaultFloor
    /\ UNCHANGED <<runVars, portfolioVars>>
    /\ UNCHANGED <<slipVars, killVars, listenerVars, feedVars, traderVars>>
    /\ UNCHANGED otherVars

\* a variant of the error arm that gives up instead of retrying
AfterErrorGiveUp(pc) == "done"

AfterError(pc) == pc

\* a variant of the floor comparison with the operands swapped
AboveFloor(bal, fl) == bal > fl

BelowFloor(bal, fl) == bal < fl

EquityTickOn(readings) ==
    /\ Alive
    /\ eq_pc = "loop"
    /\ \E r \in readings :
          /\ IF r # Nothing /\ BelowFloor(Get(r), floor)
             THEN BroadcastSend(EquityFloor)
             ELSE NoSend
          /\ eq_pc' = IF r = Nothing THEN AfterError(eq_pc) ELSE eq_pc
    /\ \E f \in Option(FloorVals) :
          floor' = IF f # Nothing THEN Get(f) ELSE floor
    /\ UNCHANGED <<runVars, portfolioVars>>
    /\ UNCHANGED <<slipVars, listenerVars, feedVars, traderVars>>
    /\ UNCHANGED otherVars

EquityTick == EquityTickOn(BalanceResults)

\* the ticks of equity_floor_breach_emits_killswitch: the balance is 100 throughout
EquityTickLow == EquityTickOn({Some(LowBalance)})

(***************************************************************************)
(* Portfolio stop-loss guard: the read of the percentage, then one tick of *)
(* its loop per step.                                                      *)
(***************************************************************************)
PortfolioStart ==
    /\ Alive
    /\ sl_pc = "start"
    /\ sl_pc' = "loop"
    /\ \E pct \in Option(StopLossPercents) :
          stop_loss_percent' = IF pct # Nothing THEN Get(pct) ELSE DefaultStopLossPercent
    /\ UNCHANGED <<peak_equity, initialized, sl_bal>>
    /\ UNCHANGED <<runVars, equityVars>>
    /\ UNCHANGED <<slipVars, killVars, listenerVars, feedVars, traderVars>>
    /\ UNCHANGED otherVars

\* a variant of the peak update that follows the last reading
NextPeakLast(init, peak, bal) == bal

NextPeak(init, peak, bal) == IF ~init THEN bal ELSE Max(peak, bal)

\* a variant of the stop test that also fires at the stop level
BelowOrAtStop(bal, peak, pct) == bal * 100 <= peak * (100 - pct)

BelowStop(bal, peak, pct) == bal * 100 < peak * (100 - pct)

\* a variant of the breach branch without the break
AfterBreachNoBreak == "loop"

AfterBreach == "done"

PortfolioTickOn(readings) ==
    /\ Alive
    /\ sl_pc = "loop"
    /\ \E r \in readings :
          IF r = Nothing
          THEN /\ NoSend
               /\ sl_pc' = AfterError(sl_pc)
               /\ UNCHANGED <<peak_equity, initialized, sl_bal>>
          ELSE /\ peak_equity' = NextPeak(initialized, peak_equity, Get(r))
               /\ initialized' = TRUE
               /\ sl_bal' = Get(r)
               /\ IF BelowStop(Get(r), peak_equity', stop_loss_percent)
                  THEN /\ BroadcastSend(PortfolioStopLoss)
                       /\ sl_pc' = AfterBreach
                  ELSE /\ NoSend
                       /\ UNCHANGED sl_pc
    /\ UNCHANGED stop_loss_percent
    /\ UNCHANGED <<runVars, equityVars>>
    /\ UNCHANGED <<slipVars, listenerVars, feedVars, traderVars>>
    /\ UNCHANGED otherVars

PortfolioTick == PortfolioTickOn(BalanceResults)

(***************************************************************************)
(* Slippage sentinel: receive one sample and process it.                   *)
(***************************************************************************)
EmaUpdate(init, old, x) ==
    IF ~init THEN x ELSE RoundDiv(2 * x + (EmaN - 1) * old, EmaN + 1)

StdDev(m1, m2) == Isqrt(Max(m2 - m1 * m1, 0))

\* variants of the breach condition: no warm-up; warm-up one sample too long
BreachNoWarmUp(count, s, th) == s < -th /\ th > 0

BreachLateWarmUp(count, s, th) == count > WarmUp /\ s < -th /\ th > 0

Breach(count, s, th) == count >= WarmUp /\ s < -th /\ th > 0

SentinelStart ==
    /\ Alive
    /\ ss_pc = "start"
    /\ ss_pc' = "loop"
    /\ \E nk \in Option(SlipKs) :
          k' = IF nk # Nothing THEN Get(nk) ELSE DefaultK
    /\ UNCHANGED <<ema, ema2, initialised, sample_count, slip, threshold>>
    /\ UNCHANGED <<harnessVars, riskVars, killVars, listenerVars, feedVars, traderVars>>
    /\ UNCHANGED otherVars

SentinelStep ==
    /\ Alive
    /\ ss_pc = "loop"
    /\ slippage_ch # <<>>
    /\ LET s == Head(slippage_ch)
           e1 == EmaUpdate(initialised, ema, s)
           e2 == EmaUpdate(initialised, ema2, s * s)
       IN /\ slippage_ch' = Tail(slippage_ch)
          /\ slip' = s
          /\ ema' = e1
          /\ ema2' = e2
          /\ initialised' = TRUE
          /\ sample_count' = sample_count + 1
          /\ \E nk \in Option(SlipKs) :
                /\ k' = IF nk # Nothing THEN Get(nk) ELSE k
                /\ threshold' = k' * StdDev(e1, e2)
          /\ IF Breach(sample_count', s, threshold')
             THEN BroadcastSend(SlippageKind)
             ELSE NoSend
    /\ UNCHANGED <<ss_pc, harness, fed>>
    /\ UNCHANGED <<riskVars, listenerVars, feedVars, traderVars>>
    /\ UNCHANGED otherVars

(***************************************************************************)
(* Producers of slippage samples in the risk tests: any samples, or the    *)
(* script of slippage_breach_emits_killswitch.                             *)
(***************************************************************************)
FeedAny ==
    /\ Alive
    /\ harness \in {None, "any"}
    /\ harness' = "any"
    /\ fed < MaxSamples
    /\ \E s \in Samples : slippage_ch' = Append(slippage_ch, s)
    /\ fed' = fed + 1
    /\ UNCHANGED <<sentinelVars, riskVars, killVars, listenerVars, feedVars, traderVars>>
    /\ UNCHANGED otherVars

FeedScript ==
    /\ Alive
    /\ harness \in {None, "s5"}
    /\ harness' = "s5"
    /\ fed <= BenignRun
    /\ slippage_ch' = Append(slippage_ch,
                             IF fed < BenignRun THEN BenignSample ELSE OutlierSample)
    /\ fed' = fed + 1
    /\ UNCHANGED <<sentinelVars, riskVars, killVars, listenerVars, feedVars, traderVars>>
    /\ UNCHANGED otherVars

(***************************************************************************)
(* Kill-switch listener of main.rs.                                        *)
(***************************************************************************)
KillLabel(kind) ==
    CASE kind = EquityFloor -> "equity_floor"
      [] kind = SlippageKind -> "slippage"
      [] OTHER -> NoLabel

SendersClosed == risk_state = "failed"

ListenerLagged ==
    /\ kill_lagged
    /\ l_pc' = "ended"
    /\ kill_lagged' = FALSE
    /\ UNCHANGED <<kill_q, kill_sent, l_kind, killswitch_total, exit_code>>

ListenerClosed ==
    /\ ~kill_lagged
    /\ kill_q = <<>>
    /\ SendersClosed
    /\ l_pc' = "ended"
    /\ UNCHANGED <<killVars, l_kind, killswitch_total, exit_code>>

ListenerGot ==
    /\ ~kill_lagged
    /\ kill_q # <<>>
    /\ LET kind == Head(kill_q)
           label == KillLabel(kind)
       IN /\ kill_q' = Tail(kill_q)
          /\ l_kind' = kind
          /\ IF label # NoLabel
             THEN /\ killswitch_total' = [killswitch_total EXCEPT ![label] = @ + 1]
                  /\ l_pc' = "sleep"
             ELSE /\ UNCHANGED killswitch_total
                  /\ l_pc' \in {"sleep", "ended"}
    /\ UNCHANGED <<kill_lagged, kill_sent, exit_code>>

ListenerRecv ==
    /\ l_pc = "recv"
    /\ \/ ListenerLagged
       \/ ListenerClosed
       \/ ListenerGot
    /\ UNCHANGED <<riskVars, slipVars, feedVars, traderVars>>
    /\ UNCHANGED otherVars

ListenerExit ==
    /\ l_pc = "sleep"
    /\ l_pc' = "exited"
    /\ exit_code' = Some(1)
    /\ UNCHANGED <<l_kind, killswitch_total>>
    /\ UNCHANGED <<riskVars, slipVars, killVars, feedVars, traderVars>>
    /\ UNCHANGED otherVars

(***************************************************************************)
(* Producers of the trader's inputs: the feed subscribers and whoever      *)
(* pushes manual signals to the redis list.                                *)
(***************************************************************************)
EventArrivesOf(evs) ==
    /\ Alive
    /\ events_open
    /\ arrived + pushed < MaxInputs
    /\ Len(events) < EventsCapacity
    /\ \E e \in evs : events' = Append(events, e)
    /\ arrived' = arrived + 1
    /\ UNCHANGED <<trade_signals, pushed>>
    /\ UNCHANGED <<riskVars, slipVars, killVars, listenerVars, traderVars>>
    /\ UNCHANGED otherVars

EventArrives == EventArrivesOf(FeedEvents)

\* the last sender of the events channel is dropped
SendersDropped ==
    /\ Alive
    /\ events_open
    /\ events_open' = FALSE
    /\ UNCHANGED <<classifierVars, wsVars, replayVars, rpcVars>>
    /\ UNCHANGED <<riskVars, slipVars, killVars, listenerVars, feedVars, traderVars>>

\* launch events that keep arriving: the subscribers send one whenever the
\* channel has room
EventStream ==
    /\ Alive
    /\ events_open
    /\ Len(events) < SmallCapacity
    /\ events' = Append(events, [GoodEvent EXCEPT !.holders_60 = 49])
    /\ UNCHANGED <<arrived, trade_signals, pushed>>
    /\ UNCHANGED <<riskVars, slipVars, killVars, listenerVars, traderVars>>
    /\ UNCHANGED otherVars

SignalPushed ==
    /\ Alive
    /\ arrived + pushed < MaxInputs
    /\ \E sg \in SignalPayloads : trade_signals' = Append(trade_signals, sg)
    /\ pushed' = pushed + 1
    /\ UNCHANGED <<events, arrived>>
    /\ UNCHANGED <<riskVars, slipVars, killVars, listenerVars, traderVars>>
    /\ UNCHANGED otherVars

(***************************************************************************)
(* ws_feed: normalise_message and one subscriber task per platform.        *)
(***************************************************************************)
LowerChar(c) ==
    CASE c = "A" -> "a"
      [] c = "B" -> "b"
      [] c = "D" -> "d"
      [] c = "L" -> "l"
      [] c = "M" -> "m"
      [] c = "N" -> "n"
      [] OTHER -> c

to_lowercase(str) == [i \in DOMAIN str |-> LowerChar(str[i])]

contains(str, pat) ==
    \E i \in 0..(Len(str) - Len(pat)) : SubSeq(str, i + 1, i + Len(pat)) = pat

DigitOf(c) ==
    CASE c = "0" -> 0 [] c = "1" -> 1 [] c = "2" -> 2 [] c = "3" -> 3
      [] c = "4" -> 4 [] c = "5" -> 5 [] c = "6" -> 6 [] c = "7" -> 7
      [] c = "8" -> 8 [] c = "9" -> 9 [] OTHER -> -1

IsDigits(w) == \A i \in DOMAIN w : DigitOf(w[i]) >= 0

RECURSIVE NatOf(_)
NatOf(w) ==
    IF w = <<>> THEN 0 ELSE 10 * NatOf(SubSeq(w, 1, Len(w) - 1)) + DigitOf(w[Len(w)])

\* str::parse::<u32>, on words within the range of u32
parse_u32(w) == IF w # <<>> /\ IsDigits(w) THEN Some(NatOf(w)) ELSE Nothing

\* str::parse::<f64> on unsigned decimal notation with at most two fraction
\* digits, in 1/LpScale; the words of the model use no other notation
parse_f64(w) ==
    LET dots == {i \in DOMAIN w : w[i] = "."}
        dot == IF dots = {} THEN Len(w) + 1 ELSE CHOOSE i \in dots : TRUE
        int == SubSeq(w, 1, dot - 1)
        frac == SubSeq(w, dot + 1, Len(w))
    IN IF Cardinality(dots) <= 1 /\ IsDigits(int) /\ IsDigits(frac)
          /\ int \o frac # <<>> /\ Len(frac) <= 2
       THEN Some(NatOf(int) * LpScale + NatOf(SubSeq(frac \o <<"0", "0">>, 1, 2)))
       ELSE Nothing

\* the first word after the prefix, the empty string when nothing follows
extract_from_log(log, prefix) ==
    IF log.prefix = prefix
    THEN Some(IF log.rest = <<>> THEN <<>> ELSE Head(log.rest))
    ELSE Nothing

NoFields == [mint |-> Nothing, creator |-> Nothing, holders_60 |-> Nothing,
             lp |-> Nothing]

\* the body of `for log in logs`
ScanLog(acc, log) ==
    LET m == extract_from_log(log, "mint")
        c == extract_from_log(log, "creator")
        h == extract_from_log(log, "holders_60")
        l == extract_from_log(log, "lp")
    IN [mint |-> IF m # Nothing THEN m ELSE acc.mint,
        creator |-> IF c # Nothing THEN c ELSE acc.creator,
        holders_60 |-> IF h # Nothing THEN parse_u32(Get(h)) ELSE acc.holders_60,
        lp |-> IF l # Nothing THEN parse_f64(Get(l)) ELSE acc.lp]

RECURSIVE ScanLogs(_, _)
ScanLogs(acc, logs) ==
    IF logs = <<>> THEN acc ELSE ScanLogs(ScanLog(acc, Head(logs)), Tail(logs))

\* a variant of the length check that drops nothing
OversizedNever(raw) == FALSE

Oversized(raw) == raw.len > MAX_MSG_LEN

normalise_message(raw, platform) ==
    LET f == ScanLogs(NoFields, raw.logs)
    IN IF Oversized(raw)
       THEN Nothing
       ELSE IF ~raw.json \/ raw.method # "logsNotification"
       THEN Nothing
       ELSE IF ~raw.err_null
       THEN Nothing
       ELSE IF ~\E i \in DOMAIN raw.logs :
                   \E j \in DOMAIN raw.logs[i].rest :
                      contains(raw.logs[i].rest[j], <<"initialize2">>)
       THEN Nothing
       ELSE IF f.mint # Nothing /\ f.creator # Nothing /\ f.holders_60 # Nothing
                  /\ f.lp # Nothing
       THEN Some([mint |-> Get(f.mint), creator |-> Get(f.creator),
                  holders_60 |-> Get(f.holders_60), lp |-> Get(f.lp),
                  platform |-> platform])
       ELSE Nothing

\* the receiver of the events channel is dropped when trader::run ends
ReceiverGone == t_pc \in {"returned_err", "returned_ok", "panicked"}

\* a variant of run's loop that gives up when subscribe_platform returns
AfterDisconnectEnd == "ended"

\* ws_feed::run: when subscribe_platform returns, the task sleeps 5 s and
\* calls it again
AfterDisconnect == "retry"

\* a variant of the connection that reads its first frame as a notification
AfterConnectNoAck(ok) == IF ok THEN "reading" ELSE AfterDisconnect

AfterConnect(ok) == IF ok THEN "ack" ELSE AfterDisconnect

\* connect_async and the subscribe request; a failure returns Err
WsConnectOf(p) ==
    /\ ws_pc[p] = "connect"
    /\ \E ok \in BOOLEAN :
          ws_pc' = [ws_pc EXCEPT ![p] = AfterConnect(ok)]
    /\ UNCHANGED <<frame, normalised, frames_read, ws_pending, confirmation, events_open,
                   classifierVars, replayVars, rpcVars>>
    /\ UNCHANGED <<riskVars, slipVars, killVars, listenerVars, feedVars, traderVars>>

WsConnect == \E p \in Platform : WsConnectOf(p)

\* the first result of ws.next() is taken as the subscription's confirmation,
\* whatever it is: a text frame, one of texts, is looked at for "result" only
WsAckOn(texts) ==
    /\ frames_read < MaxFrames
    /\ \E p \in Platform :
          /\ ws_pc[p] = "ack"
          /\ ws_pc' = [ws_pc EXCEPT ![p] = "reading"]
    /\ \E outcome \in WsOutcomes, raw \in texts :
          confirmation' = IF outcome = "text" THEN Some(raw) ELSE Nothing
    /\ frames_read' = frames_read + 1
    /\ frame' = Nothing
    /\ normalised' = Nothing
    /\ UNCHANGED <<ws_pending, events_open, classifierVars, replayVars, rpcVars>>
    /\ UNCHANGED <<riskVars, slipVars, killVars, listenerVars, feedVars, traderVars>>

WsAck == WsAckOn(Frames)

\* one turn of `while let Some(frame) = ws.next().await`, on an events
\* channel of capacity cap: tx.send(ev).await waits while the channel is full
WsReadOn(cap) ==
    /\ frames_read < MaxFrames
    /\ frames_read' = frames_read + 1
    /\ \E p \in Platform, outcome \in WsOutcomes :
          /\ ws_pc[p] = "reading"
          /\ IF outcome = "text"
             THEN \E raw \in Frames :
                     /\ frame' = Some(raw)
                     /\ normalised' = normalise_message(raw, p)
                     /\ IF normalised' = Nothing \/ ReceiverGone
                        THEN UNCHANGED <<events, ws_pc, ws_pending>>
                        ELSE IF Len(events) < cap
                        THEN /\ events' = Append(events, Get(normalised'))
                             /\ UNCHANGED <<ws_pc, ws_pending>>
                        ELSE /\ ws_pc' = [ws_pc EXCEPT ![p] = "sending"]
                             /\ ws_pending' = [ws_pending EXCEPT ![p] = normalised']
                             /\ UNCHANGED events
             ELSE /\ frame' = Nothing
                  /\ normalised' = Nothing
                  /\ ws_pc' = [ws_pc EXCEPT ![p] = IF outcome = "other"
                                                   THEN "reading"
                                                   ELSE AfterDisconnect]
                  /\ UNCHANGED <<events, ws_pending>>
    /\ UNCHANGED <<arrived, trade_signals, pushed, events_open, classifierVars, replayVars, rpcVars>>
    /\ UNCHANGED confirmation
    /\ UNCHANGED <<riskVars, slipVars, killVars, listenerVars, traderVars>>

WsRead == WsReadOn(EventsCapacity)

\* tx.send(ev).await returns: the channel has room, or the receiver is gone
WsSendOn(cap) ==
    /\ \E p \in Platform :
          /\ ws_pc[p] = "sending"
          /\ ReceiverGone \/ Len(events) < cap
          /\ events' = IF ReceiverGone
                       THEN events
                       ELSE Append(events, Get(ws_pending[p]))
          /\ ws_pc' = [ws_pc EXCEPT ![p] = "reading"]
          /\ ws_pending' = [ws_pending EXCEPT ![p] = Nothing]
    /\ UNCHANGED <<frame, normalised, frames_read, confirmation>>
    /\ UNCHANGED <<arrived, trade_signals, pushed, events_open, classifierVars, replayVars, rpcVars>>
    /\ UNCHANGED <<riskVars, slipVars, killVars, listenerVars, traderVars>>

\* ws_feed::run: five seconds after subscribe_platform returned, it is called
\* again
WsRetryOf(p) ==
    /\ ws_pc[p] = "retry"
    /\ ws_pc' = [ws_pc EXCEPT ![p] = "connect"]
    /\ UNCHANGED <<frame, normalised, frames_read, ws_pending, confirmation, events_open,
                   classifierVars, replayVars, rpcVars>>
    /\ UNCHANGED <<riskVars, slipVars, killVars, listenerVars, feedVars, traderVars>>

WsRetry == \E p \in Platform : WsRetryOf(p)

(***************************************************************************)
(* ws_feed::run_replay.                                                    *)
(***************************************************************************)
ReplayFrame == <<arrived, trade_signals, pushed, events_open, classifierVars, wsVars,
                 rpcVars>>

ReadsLinesOf(ext) == ext = "json"

\* the match on the extension, File::open
ReplayStart ==
    /\ rp_pc = "idle"
    /\ \E ext \in Extensions, file \in ReplayFiles :
          /\ rp_ext' = ext
          /\ rp_file' = file
          /\ rp_pc' = IF ReadsLinesOf(ext)
                       THEN IF file.opens THEN "reading" ELSE "returned_err"
                       ELSE IF ext = "parquet" THEN "returned_ok" ELSE "returned_err"
    /\ UNCHANGED <<rp_next, rp_sent, events>>
    /\ UNCHANGED ReplayFrame
    /\ UNCHANGED <<riskVars, slipVars, killVars, listenerVars, traderVars>>

\* one turn of `for line in reader.lines()`, on an events channel of
\* capacity cap
ReplayLineOn(cap) ==
    /\ rp_pc = "reading"
    /\ IF rp_next > Len(rp_file.lines)
       THEN /\ rp_pc' = "returned_ok"
            /\ UNCHANGED <<rp_next, rp_sent, events>>
       ELSE LET line == rp_file.lines[rp_next]
            IN IF ~line.ok
               THEN /\ rp_pc' = "returned_err"
                    /\ UNCHANGED <<rp_next, rp_sent, events>>
               ELSE IF line.ev = Nothing
               THEN /\ rp_next' = rp_next + 1
                    /\ UNCHANGED <<rp_pc, rp_sent, events>>
               ELSE IF ReceiverGone
               THEN /\ rp_pc' = "returned_ok"
                    /\ UNCHANGED <<rp_next, rp_sent, events>>
               ELSE IF Len(events) < cap
               THEN /\ events' = Append(events, Get(line.ev))
                    /\ rp_sent' = Append(rp_sent, Get(line.ev))
                    /\ rp_next' = rp_next + 1
                    /\ UNCHANGED rp_pc
               ELSE /\ rp_pc' = "sending"
                    /\ UNCHANGED <<rp_next, rp_sent, events>>
    /\ UNCHANGED <<rp_ext, rp_file>>
    /\ UNCHANGED ReplayFrame
    /\ UNCHANGED <<riskVars, slipVars, killVars, listenerVars, traderVars>>

\* tx.send(event).await returns: the channel has room, or the receiver is gone
ReplaySendOn(cap) ==
    /\ rp_pc = "sending"
    /\ ReceiverGone \/ Len(events) < cap
    /\ IF ReceiverGone
       THEN /\ rp_pc' = "returned_ok"
            /\ UNCHANGED <<rp_next, rp_sent, events>>
       ELSE /\ events' = Append(events, Get(rp_file.lines[rp_next].ev))
            /\ rp_sent' = Append(rp_sent, Get(rp_file.lines[rp_next].ev))
            /\ rp_next' = rp_next + 1
            /\ rp_pc' = "reading"
    /\ UNCHANGED <<rp_ext, rp_file>>
    /\ UNCHANGED ReplayFrame
    /\ UNCHANGED <<riskVars, slipVars, killVars, listenerVars, traderVars>>

(***************************************************************************)
(* Pure helpers of the trader.                                             *)
(***************************************************************************)
\* a variant of the classifier whose holders boundary is exclusive
ScoreExclusive(e) == IF e.holders_60 > MinHolders /\ 2 * e.lp >= LpScale THEN 9 ELSE 1

\* the score in tenths
Score(e) == IF e.holders_60 >= MinHolders /\ 2 * e.lp >= LpScale THEN 9 ELSE 1

\* classifier::score called on its own, as the classifier tests call it
ClassifierScore ==
    /\ \E e \in ScoreInputs :
          /\ scored' = Some(e)
          /\ score_out' = Score(e)
    /\ UNCHANGED <<wasm_module, events_open, wsVars, replayVars, rpcVars>>
    /\ UNCHANGED <<riskVars, slipVars, killVars, listenerVars, feedVars, traderVars>>

\* classifier::load_wasm: a valid module is stored unless one is stored already
LoadWasm ==
    /\ \E valid \in BOOLEAN : wasm_module' = (wasm_module \/ valid)
    /\ UNCHANGED <<scored, score_out, events_open, wsVars, replayVars, rpcVars>>
    /\ UNCHANGED <<riskVars, slipVars, killVars, listenerVars, feedVars, traderVars>>

is_sanctioned(addr) == addr \in DENYLIST

\* a variant of the enrichment that leaves the event as it came
enrich_event_nothing(e) == e

enrich_event(e) == [e EXCEPT !.lp = EnrichedLp]

EventKey(e) == <<e.mint, e.creator>>

Keys ==
    ((Mints \cup {<<>>}) \X (Creators \cup {<<>>}))
        \cup (Mints \X {RedisCreator(src) : src \in Sources})

NoneStarted == [x \in Keys \X (Inlets \cup {Dup}) |-> 0]

\* the count of starts of a key from an inlet, counted up to MaxStarted
Started(key, inlet) ==
    [started EXCEPT ![<<key, inlet>>] = IF @ < MaxStarted THEN @ + 1 ELSE @]

\* a variant of the platform guard that lets every mint through
PlatformGuardAnyMint(e) == TRUE

PlatformGuard(e) ==
    e.platform = LetsBonk => contains(to_lowercase(e.mint), <<"b", "o", "n", "k">>)

PlatformFromStr(str) ==
    CASE to_lowercase(str) = <<"p", "u", "m", "p", "f", "u", "n">> -> Some(PumpFun)
      [] to_lowercase(str) = <<"l", "e", "t", "s", "b", "o", "n", "k">> -> Some(LetsBonk)
      [] OTHER -> Nothing

redis_signal_to_launch_event(sg) ==
    LET parsed == IF sg.platform = Nothing
                  THEN Nothing
                  ELSE PlatformFromStr(Get(sg.platform))
    IN [mint |-> sg.token,
        creator |-> RedisCreator(sg.source),
        holders_60 |-> ManualHolders,
        lp |-> ManualLp,
        platform |-> IF parsed = Nothing THEN PumpFun ELSE Get(parsed)]

GatesPass(e, thr) ==
    /\ Score(e) > 5
    /\ ~(is_sanctioned(e.creator) \/ is_sanctioned(e.mint))
    /\ ~(e.lp < thr)
    /\ PlatformGuard(e)

SlipValue(entry, exit) ==
    IF entry > 0 /\ exit > 0
    THEN (exit * SlipScale) \div entry - SlipScale
    ELSE 0

RECURSIVE FirstAccepting(_, _)
FirstAccepting(urls, acc) ==
    IF urls = <<>>
    THEN Nothing
    ELSE IF Head(urls) \in acc
         THEN Some(Head(urls))
         ELSE FirstAccepting(Tail(urls), acc)

SignAndSend(urls, acc, tip, blockhash_ok) ==
    IF tip > 0 /\ ~blockhash_ok
    THEN Nothing
    ELSE FirstAccepting(urls, acc)

Range(f) == {f[i] : i \in DOMAIN f}

RpcUrls(env) == IF env = Nothing \/ Get(env) = <<>> THEN <<Primary>> ELSE Get(env)

Did(op, leg) == \E i \in DOMAIN exec_log : exec_log[i] = <<op, leg>>

Log(op, leg) == exec_log' = Append(exec_log, <<op, leg>>)

(***************************************************************************)
(* trader::run: start-up, then the top of one loop iteration, then one     *)
(* select branch.  The rx.recv() branch is disabled while recv() yields    *)
(* None, that is once the channel is closed and empty; the loop has no     *)
(* break and no return.                                                    *)
(***************************************************************************)
\* the keypair and the redis connection; either failure returns Err
TraderStartOn(oks) ==
    /\ Alive
    /\ t_pc = "start"
    /\ \E keypair_ok \in oks, redis_ok \in oks :
          t_pc' = IF keypair_ok /\ redis_ok THEN "top" ELSE "returned_err"
    /\ UNCHANGED <<processed_events, started, liquidity_threshold_usd, cur,
                   buy_price, tp_price, rpc_urls, result, exec_log,
                   trades_submitted, trades_confirmed, guards>>
    /\ UNCHANGED <<riskVars, slipVars, killVars, listenerVars, feedVars>>
    /\ UNCHANGED otherVars

TraderStart == TraderStartOn(BOOLEAN)

TraderTop ==
    /\ Alive
    /\ t_pc = "top"
    /\ t_pc' = "select"
    /\ \E flush \in BOOLEAN :
          /\ processed_events' = IF flush THEN {} ELSE processed_events
          /\ started' = IF flush THEN NoneStarted ELSE started
    /\ \E thr \in Thresholds \cup {liquidity_threshold_usd} :
          liquidity_threshold_usd' = thr
    /\ UNCHANGED <<cur, buy_price, tp_price, rpc_urls, result, exec_log,
                   trades_submitted, trades_confirmed, guards>>
    /\ UNCHANGED <<riskVars, slipVars, killVars, listenerVars, feedVars>>
    /\ UNCHANGED otherVars

\* the call of execute_trade: its first statement takes a read guard on
\* RISK_CONFIG that lives to the end of the function, on top of the guards
\* the caller holds
StartTrade(e, held) ==
    /\ guards' = held + 1
    /\ cur' = Some(e)
    /\ buy_price' = 0
    /\ tp_price' = 0
    /\ rpc_urls' = <<>>
    /\ result' = None
    /\ exec_log' = <<>>
    /\ t_pc' = "exec_build"

\* continue, or the end of the branch: the guards of the iteration are dropped
NoTrade ==
    /\ t_pc' = "top"
    /\ guards' = 0
    /\ UNCHANGED <<cur, buy_price, tp_price, rpc_urls, result, exec_log>>

\* a variant of the dedup step that forgets the key
DedupInsertNothing(key) == processed_events

\* a variant of the dedup step that keeps the new key alone
DedupInsertAlone(key) == {key}

DedupInsert(key) == processed_events \cup {key}

\* the read guard the liquidity gate binds to a local of the recv branch
LiquidityGateGuards == 1

TraderRecv ==
    /\ Alive
    /\ t_pc = "select"
    /\ events # <<>>
    /\ events' = Tail(events)
    /\ LET e == enrich_event(Head(events))
           key == EventKey(Head(events))
       IN IF key \in processed_events
          THEN /\ NoTrade
               /\ started' = Started(key, Dup)
               /\ UNCHANGED processed_events
          ELSE /\ processed_events' = DedupInsert(key)
               /\ started' = Started(key, "ws")
               /\ IF GatesPass(e, liquidity_threshold_usd)
                  THEN StartTrade(e, LiquidityGateGuards)
                  ELSE NoTrade
    /\ UNCHANGED <<arrived, trade_signals, pushed>>
    /\ UNCHANGED <<liquidity_threshold_usd, trades_submitted, trades_confirmed>>
    /\ UNCHANGED <<riskVars, slipVars, killVars, listenerVars>>
    /\ UNCHANGED otherVars

\* The sleep branch of the select: the sleep is created anew by every
\* iteration, so it completes only when rx.recv() stays pending for a second,
\* which a queued launch event rules out.
TraderPollOn(oks) ==
    /\ Alive
    /\ t_pc = "select"
    /\ events = <<>>
    /\ \E redis_ok \in oks :
          IF ~redis_ok \/ trade_signals = <<>>
          THEN /\ NoTrade
               /\ UNCHANGED <<trade_signals, started>>
          ELSE /\ trade_signals' = Tail(trade_signals)
               /\ LET sg == Head(trade_signals)
                  IN IF sg # Nothing /\ Get(sg).action = "buy"
                     THEN /\ StartTrade(redis_signal_to_launch_event(Get(sg)), 0)
                          /\ started' = Started(
                                 EventKey(redis_signal_to_launch_event(Get(sg))), "redis")
                     ELSE /\ NoTrade
                          /\ UNCHANGED started
    /\ UNCHANGED <<events, arrived, pushed>>
    /\ UNCHANGED <<processed_events, liquidity_threshold_usd, trades_submitted,
                   trades_confirmed>>
    /\ UNCHANGED <<riskVars, slipVars, killVars, listenerVars>>
    /\ UNCHANGED otherVars

TraderPoll == TraderPollOn(BOOLEAN)

(***************************************************************************)
(* execute_trade, one step per fallible operation.                         *)
(***************************************************************************)
PlatformOf == Get(cur).platform

\* a variant of the return that goes back to the select with the trade open
ReturnToSelect(res) ==
    /\ t_pc' = "select"
    /\ result' = res

Return(res) ==
    /\ t_pc' = "exec_return"
    /\ result' = res

ExecFrame == <<cur, processed_events, started, liquidity_threshold_usd, guards>>

\* What the environment of one trade can do is a parameter of its steps:
\* quotes are the answers of the aggregator to fetch_swap_tx (Nothing: it
\* fails), oks the outcomes of a call to the RPC node (FALSE: it fails).
\* fetch_swap_tx for the buy leg, or the noop fallback at price 0, or an error
ExecBuildBuyOn(quotes, oks) ==
    /\ Alive
    /\ t_pc = "exec_build"
    /\ \E q \in quotes, fallback_ok \in oks :
          IF q # Nothing \/ fallback_ok
          THEN /\ buy_price' = IF q # Nothing THEN Get(q) ELSE 0
               /\ Log("built", "buy")
               /\ t_pc' = "exec_send_buy"
               /\ UNCHANGED result
          ELSE /\ Return("err")
               /\ UNCHANGED <<buy_price, exec_log>>
    /\ UNCHANGED <<tp_price, rpc_urls, trades_submitted, trades_confirmed>>
    /\ UNCHANGED ExecFrame
    /\ UNCHANGED <<riskVars, slipVars, killVars, listenerVars, feedVars>>
    /\ UNCHANGED otherVars

ExecBuildBuy == ExecBuildBuyOn(Option(Prices), BOOLEAN)

\* a variant of the submission counter that counts nothing
inc_trades_submitted_nothing(p) == trades_submitted

inc_trades_submitted(p) == [trades_submitted EXCEPT ![p] = @ + 1]

\* the endpoints that accept a transaction: all of them when no call fails
Accepting(urls, oks) ==
    {acc \in SUBSET Range(urls) : FALSE \in oks \/ acc = Range(urls)}

SendLeg(leg, urls, next, oks) ==
    \E acc \in Accepting(urls, oks), tip \in Tips, blockhash_ok \in oks :
       IF SignAndSend(urls, acc, tip, blockhash_ok) # Nothing
       THEN /\ trades_submitted' = inc_trades_submitted(PlatformOf)
            /\ Log("sent", leg)
            /\ t_pc' = next
            /\ UNCHANGED result
       ELSE /\ Return("err")
            /\ Log("rejected", leg)
            /\ UNCHANGED trades_submitted

ExecSendBuyOn(oks) ==
    /\ Alive
    /\ t_pc = "exec_send_buy"
    /\ SendLeg("buy", <<Primary>>, "exec_confirm", oks)
    /\ UNCHANGED <<buy_price, tp_price, rpc_urls, trades_confirmed>>
    /\ UNCHANGED ExecFrame
    /\ UNCHANGED <<riskVars, slipVars, killVars, listenerVars, feedVars>>
    /\ UNCHANGED otherVars

ExecSendBuy == ExecSendBuyOn(BOOLEAN)

\* a variant of the confirmation step that goes on after a failure
AfterConfirmIgnored(confirmed) == "exec_oco"

AfterConfirm(confirmed) == IF confirmed THEN "exec_oco" ELSE "exec_return"

ExecConfirmOn(oks) ==
    /\ Alive
    /\ t_pc = "exec_confirm"
    /\ \E confirmed \in oks :
          /\ t_pc' = AfterConfirm(confirmed)
          /\ IF confirmed
             THEN /\ trades_confirmed' = [trades_confirmed EXCEPT ![PlatformOf] = @ + 1]
                  /\ Log("confirmed", "buy")
                  /\ UNCHANGED result
             ELSE /\ result' = "err"
                  /\ Log("unconfirmed", "buy")
                  /\ UNCHANGED trades_confirmed
    /\ UNCHANGED <<buy_price, tp_price, rpc_urls, trades_submitted>>
    /\ UNCHANGED ExecFrame
    /\ UNCHANGED <<riskVars, slipVars, killVars, listenerVars, feedVars>>
    /\ UNCHANGED otherVars

ExecConfirm == ExecConfirmOn(BOOLEAN)

\* build_oco, then the endpoint list: each leg is the aggregator's swap or the
\* noop fallback at price 0, and the fallback panics when it fails
ExecBuildOcoOn(quotes, oks) ==
    /\ Alive
    /\ t_pc = "exec_oco"
    /\ \E tp \in quotes, sl \in quotes, tp_fallback_ok \in oks, sl_fallback_ok \in oks :
          IF tp = Nothing /\ ~tp_fallback_ok
          THEN /\ t_pc' = "panicked"
               /\ UNCHANGED <<tp_price, exec_log, rpc_urls>>
          ELSE /\ tp_price' = IF tp # Nothing THEN Get(tp) ELSE 0
               /\ IF sl = Nothing /\ ~sl_fallback_ok
                  THEN /\ Log("built", "tp")
                       /\ t_pc' = "panicked"
                       /\ UNCHANGED rpc_urls
                  ELSE /\ exec_log' = exec_log \o << <<"built", "tp">>, <<"built", "sl">> >>
                       /\ \E env \in Option(SecondaryLists) : rpc_urls' = RpcUrls(env)
                       /\ t_pc' = "exec_send_tp"
    /\ UNCHANGED <<buy_price, result, trades_submitted, trades_confirmed>>
    /\ UNCHANGED ExecFrame
    /\ UNCHANGED <<riskVars, slipVars, killVars, listenerVars, feedVars>>
    /\ UNCHANGED otherVars

ExecBuildOco == ExecBuildOcoOn(Option(Prices), BOOLEAN)

ExecSendTpOn(oks) ==
    /\ Alive
    /\ t_pc = "exec_send_tp"
    /\ SendLeg("tp", rpc_urls, "exec_send_sl", oks)
    /\ UNCHANGED <<buy_price, tp_price, rpc_urls, trades_confirmed>>
    /\ UNCHANGED ExecFrame
    /\ UNCHANGED <<riskVars, slipVars, killVars, listenerVars, feedVars>>
    /\ UNCHANGED otherVars

ExecSendTp == ExecSendTpOn(BOOLEAN)

ExecSendSlOn(oks) ==
    /\ Alive
    /\ t_pc = "exec_send_sl"
    /\ SendLeg("sl", rpc_urls, "exec_slip", oks)
    /\ UNCHANGED <<buy_price, tp_price, rpc_urls, trades_confirmed>>
    /\ UNCHANGED ExecFrame
    /\ UNCHANGED <<riskVars, slipVars, killVars, listenerVars, feedVars>>
    /\ UNCHANGED otherVars

ExecSendSl == ExecSendSlOn(BOOLEAN)

SlippageReceiverOpen == risk_state # "failed"

ExecEmitSlip ==
    /\ Alive
    /\ t_pc = "exec_slip"
    /\ IF SlippageReceiverOpen
       THEN /\ Len(slippage_ch) < SlippageCapacity
            /\ slippage_ch' = Append(slippage_ch, SlipValue(buy_price, tp_price))
       ELSE UNCHANGED slippage_ch
    /\ Log("slip", "tp")
    /\ Return("ok")
    /\ UNCHANGED <<buy_price, tp_price, rpc_urls, trades_submitted, trades_confirmed>>
    /\ UNCHANGED ExecFrame
    /\ UNCHANGED <<sentinelVars, harness, fed>>
    /\ UNCHANGED <<riskVars, killVars, listenerVars, feedVars>>
    /\ UNCHANGED otherVars

\* a variant of the end of an iteration that keeps the guards of its locals
GuardsAfterIterationKept == guards

\* the locals of the select branch and of execute_trade are dropped
GuardsAfterIteration == 0

\* back in run: an error is logged and the loop goes on
ExecReturn ==
    /\ Alive
    /\ t_pc = "exec_return"
    /\ t_pc' = "top"
    /\ cur' = Nothing
    /\ exec_log' = <<>>
    /\ result' = None
    /\ buy_price' = 0
    /\ tp_price' = 0
    /\ rpc_urls' = <<>>
    /\ guards' = GuardsAfterIteration
    /\ UNCHANGED <<processed_events, started, liquidity_threshold_usd,
                   trades_submitted, trades_confirmed>>
    /\ UNCHANGED <<riskVars, slipVars, killVars, listenerVars, feedVars>>
    /\ UNCHANGED otherVars

(***************************************************************************)
(* sign_and_send, one step per RPC call of one call of the function.  A    *)
(* signature is named by the endpoint that returned it.                    *)
(***************************************************************************)
UrlLists ==
    {<<Primary>>} \cup SecondaryLists \cup {<<Primary>> \o l : l \in SecondaryLists}

\* the call: TRADE_TIP is read, unset or unparsable counting as 0
SendCall ==
    /\ s_pc = "idle"
    /\ \E urls \in UrlLists, tip \in Tips :
          /\ s_urls' = urls
          /\ tip_lamports' = tip
          /\ s_pc' = IF tip > 0 THEN "tip_blockhash" ELSE "send"
    /\ UNCHANGED <<s_next, tip_sent, tx_sent, primary_sig, s_result>>
    /\ UNCHANGED confirmVars
    /\ UNCHANGED <<events_open, classifierVars, wsVars, replayVars>>
    /\ UNCHANGED <<riskVars, slipVars, killVars, listenerVars, feedVars, traderVars>>

\* get_latest_blockhash()? of the first endpoint: a failure returns Err
AfterTipBlockhash(ok) == IF ok THEN "tip_send" ELSE "returned"

TipBlockhash ==
    /\ s_pc = "tip_blockhash"
    /\ \E ok \in BOOLEAN : s_pc' = AfterTipBlockhash(ok)
    /\ UNCHANGED <<s_urls, tip_lamports, s_next, tip_sent, tx_sent, primary_sig, s_result>>
    /\ UNCHANGED confirmVars
    /\ UNCHANGED <<events_open, classifierVars, wsVars, replayVars>>
    /\ UNCHANGED <<riskVars, slipVars, killVars, listenerVars, feedVars, traderVars>>

\* one iteration of the tip loop: the outcome of the send is dropped
TipSend ==
    /\ s_pc = "tip_send"
    /\ \E ok \in BOOLEAN : tip_sent' = Append(tip_sent, <<s_urls[s_next], ok>>)
    /\ IF s_next = Len(s_urls)
       THEN /\ s_pc' = "send"
            /\ s_next' = 1
       ELSE /\ s_next' = s_next + 1
            /\ UNCHANGED s_pc
    /\ UNCHANGED <<s_urls, tip_lamports, tx_sent, primary_sig, s_result>>
    /\ UNCHANGED confirmVars
    /\ UNCHANGED <<events_open, classifierVars, wsVars, replayVars>>
    /\ UNCHANGED <<riskVars, slipVars, killVars, listenerVars, feedVars, traderVars>>

NextPrimarySig(sig, url, ok) == IF ok /\ sig = Nothing THEN Some(url) ELSE sig

\* one iteration of the loop over urls, and after the last one the return
TxSend ==
    /\ s_pc = "send"
    /\ \E ok \in BOOLEAN :
          /\ tx_sent' = Append(tx_sent, <<s_urls[s_next], ok>>)
          /\ primary_sig' = NextPrimarySig(primary_sig, s_urls[s_next], ok)
    /\ IF s_next = Len(s_urls)
       THEN /\ s_pc' = "returned"
            /\ s_result' = primary_sig'
            /\ UNCHANGED s_next
       ELSE /\ s_next' = s_next + 1
            /\ UNCHANGED <<s_pc, s_result>>
    /\ UNCHANGED <<s_urls, tip_lamports, tip_sent>>
    /\ UNCHANGED confirmVars
    /\ UNCHANGED <<events_open, classifierVars, wsVars, replayVars>>
    /\ UNCHANGED <<riskVars, slipVars, killVars, listenerVars, feedVars, traderVars>>

(***************************************************************************)
(* wait_for_confirmation, one step per RPC call, next to the slot counter  *)
(* of the node.                                                            *)
(***************************************************************************)
SlotAdvance ==
    /\ slot < MaxSlot
    /\ slot' = slot + 1
    /\ UNCHANGED <<w_pc, start_slot, current, polled, w_result>>
    /\ UNCHANGED sendVars
    /\ UNCHANGED <<events_open, classifierVars, wsVars, replayVars>>
    /\ UNCHANGED <<riskVars, slipVars, killVars, listenerVars, feedVars, traderVars>>

ConfirmReturn(res) ==
    /\ w_pc' = "returned"
    /\ w_result' = res

\* the call: get_slot()? gives start_slot
ConfirmCall ==
    /\ w_pc = "idle"
    /\ slot <= MaxStartSlot
    /\ \E ok \in BOOLEAN :
          IF ok
          THEN /\ start_slot' = slot
               /\ w_pc' = "poll"
               /\ UNCHANGED w_result
          ELSE /\ ConfirmReturn("rpc_err")
               /\ UNCHANGED start_slot
    /\ UNCHANGED <<slot, current, polled>>
    /\ UNCHANGED sendVars
    /\ UNCHANGED <<events_open, classifierVars, wsVars, replayVars>>
    /\ UNCHANGED <<riskVars, slipVars, killVars, listenerVars, feedVars, traderVars>>

\* confirm_transaction(sig)?
ConfirmPoll ==
    /\ w_pc = "poll"
    /\ \E answer \in {"confirmed", "pending", "error"} :
          /\ polled' = answer
          /\ IF answer = "confirmed"
             THEN ConfirmReturn("ok")
             ELSE IF answer = "error"
                  THEN ConfirmReturn("rpc_err")
                  ELSE /\ w_pc' = "slot"
                       /\ UNCHANGED w_result
    /\ UNCHANGED <<slot, start_slot, current>>
    /\ UNCHANGED sendVars
    /\ UNCHANGED <<events_open, classifierVars, wsVars, replayVars>>
    /\ UNCHANGED <<riskVars, slipVars, killVars, listenerVars, feedVars, traderVars>>

saturating_sub(a, b) == Max(a - b, 0)

\* a variant of the timeout test that fires at the tenth slot
TimedOutAtLimit(now, start) == saturating_sub(now, start) >= MAX_CONFIRMATION_SLOTS

TimedOut(now, start) == saturating_sub(now, start) > MAX_CONFIRMATION_SLOTS

\* get_slot()? gives current, then the timeout test
ConfirmSlot ==
    /\ w_pc = "slot"
    /\ \E ok \in BOOLEAN :
          IF ok
          THEN /\ current' = slot
               /\ IF TimedOut(slot, start_slot)
                  THEN ConfirmReturn("timeout")
                  ELSE /\ w_pc' = "sleep"
                       /\ UNCHANGED w_result
          ELSE /\ ConfirmReturn("rpc_err")
               /\ UNCHANGED current
    /\ UNCHANGED <<slot, start_slot, polled>>
    /\ UNCHANGED sendVars
    /\ UNCHANGED <<events_open, classifierVars, wsVars, replayVars>>
    /\ UNCHANGED <<riskVars, slipVars, killVars, listenerVars, feedVars, traderVars>>

\* the sleep of 400 ms ends
ConfirmSleep ==
    /\ w_pc = "sleep"
    /\ w_pc' = "poll"
    /\ UNCHANGED <<slot, start_slot, current, polled, w_result>>
    /\ UNCHANGED sendVars
    /\ UNCHANGED <<events_open, classifierVars, wsVars, replayVars>>
    /\ UNCHANGED <<riskVars, slipVars, killVars, listenerVars, feedVars, traderVars>>

(***************************************************************************)
(* Initial state and specifications.                                       *)
(***************************************************************************)
Init ==
    /\ redis_url = "unread"
    /\ risk_state = "init"
    /\ eq_pc = "unspawned"
    /\ sl_pc = "unspawned"
    /\ ss_pc = "unspawned"
    /\ floor = DefaultFloor
    /\ peak_equity = 0
    /\ initialized = FALSE
    /\ sl_bal = 0
    /\ stop_loss_percent = DefaultStopLossPercent
    /\ ema = 0
    /\ ema2 = 0
    /\ initialised = FALSE
    /\ sample_count = 0
    /\ k = DefaultK
    /\ slip = 0
    /\ threshold = 0
    /\ slippage_ch = <<>>
    /\ harness = None
    /\ fed = 0
    /\ kill_q = <<>>
    /\ kill_lagged = FALSE
    /\ kill_sent = [kd \in KillSwitch |-> 0]
    /\ l_pc = "recv"
    /\ l_kind = None
    /\ killswitch_total = [lb \in Labels |-> 0]
    /\ exit_code = Nothing
    /\ t_pc = "start"
    /\ guards = 0
    /\ s_pc = "idle"
    /\ s_urls = <<>>
    /\ tip_lamports = 0
    /\ s_next = 1
    /\ tip_sent = <<>>
    /\ tx_sent = <<>>
    /\ primary_sig = Nothing
    /\ s_result = Nothing
    /\ slot = 0
    /\ w_pc = "idle"
    /\ start_slot = 0
    /\ current = 0
    /\ polled = None
    /\ w_result = None
    /\ events = <<>>
    /\ arrived = 0
    /\ trade_signals = <<>>
    /\ pushed = 0
    /\ processed_events = {}
    /\ started = NoneStarted
    /\ liquidity_threshold_usd \in Thresholds
    /\ cur = Nothing
    /\ buy_price = 0
    /\ tp_price = 0
    /\ rpc_urls = <<>>
    /\ result = None
    /\ exec_log = <<>>
    /\ trades_submitted = [p \in Platform |-> 0]
    /\ trades_confirmed = [p \in Platform |-> 0]
    /\ events_open = TRUE
    /\ scored = Nothing
    /\ score_out = 0
    /\ wasm_module = FALSE
    /\ ws_pc = [p \in Platform |-> "connect"]
    /\ frame = Nothing
    /\ normalised = Nothing
    /\ frames_read = 0
    /\ ws_pending = [p \in Platform |-> Nothing]
    /\ confirmation = Nothing
    /\ rp_pc = "idle"
    /\ rp_ext = "json"
    /\ rp_file = [opens |-> TRUE, lines |-> <<>>]
    /\ rp_next = 1
    /\ rp_sent = <<>>

NextKill ==
    \/ RiskRun
    \/ EquityStart
    \/ EquityTick
    \/ PortfolioStart
    \/ PortfolioTick
    \/ ListenerRecv
    \/ ListenerExit

SpecKill == Init /\ [][NextKill]_vars

NextSlip ==
    \/ RiskRun
    \/ FeedAny
    \/ FeedScript
    \/ SentinelStart
    \/ SentinelStep
    \/ ListenerRecv
    \/ ListenerExit

SpecSlip == Init /\ [][NextSlip]_vars

\* the equity-floor guard with the balance held at 100; every task that can
\* run eventually does
NextEquityBreach ==
    \/ RiskRun
    \/ EquityStart
    \/ EquityTickLow
    \/ ListenerRecv
    \/ ListenerExit

SpecEquityBreach ==
    /\ Init
    /\ [][NextEquityBreach]_vars
    /\ WF_vars(EquityStart)
    /\ WF_vars(EquityTickLow)
    /\ WF_vars(ListenerRecv)
    /\ WF_vars(ListenerExit)

NextTrader ==
    \/ TraderStart
    \/ EventArrives
    \/ SignalPushed
    \/ TraderTop
    \/ TraderRecv
    \/ TraderPoll
    \/ ExecBuildBuy
    \/ ExecSendBuy
    \/ ExecConfirm
    \/ ExecBuildOco
    \/ ExecSendTp
    \/ ExecSendSl
    \/ ExecEmitSlip
    \/ ExecReturn

SpecTrader == Init /\ [][NextTrader]_vars

NextFeed == WsConnect \/ WsAck \/ WsRead \/ WsRetry

\* The sleep of a subscriber task ends and its connection attempt returns.
SpecFeed ==
    /\ Init
    /\ [][NextFeed]_vars
    /\ \A p \in Platform : WF_vars(WsRetryOf(p)) /\ WF_vars(WsConnectOf(p))

NextScore == ClassifierScore \/ LoadWasm

SpecScore == Init /\ [][NextScore]_vars

\* The trader with launch events only, the senders of the events channel
\* dropped at some point; every step of the trader task is eventually taken.
NextDrain ==
    \/ TraderStart
    \/ EventArrives
    \/ SendersDropped
    \/ TraderTop
    \/ TraderRecv
    \/ TraderPoll
    \/ ExecBuildBuy
    \/ ExecSendBuy
    \/ ExecConfirm
    \/ ExecBuildOco
    \/ ExecSendTp
    \/ ExecSendSl
    \/ ExecEmitSlip
    \/ ExecReturn

TraderStep ==
    \/ TraderStart
    \/ TraderTop
    \/ TraderRecv
    \/ TraderPoll
    \/ ExecBuildBuy
    \/ ExecSendBuy
    \/ ExecConfirm
    \/ ExecBuildOco
    \/ ExecSendTp
    \/ ExecSendSl
    \/ ExecEmitSlip
    \/ ExecReturn

SpecDrain == Init /\ [][NextDrain]_vars /\ WF_vars(TraderStep)

\* The subscribers and the trader on an events channel of capacity
\* SmallCapacity.
NextBackPressure ==
    \/ WsConnect
    \/ WsAckOn({GoodFrame})
    \/ WsReadOn(SmallCapacity)
    \/ WsSendOn(SmallCapacity)
    \/ WsRetry
    \/ TraderStep

SpecBackPressure == Init /\ [][NextBackPressure]_vars

\* run_replay and the trader on an events channel of capacity SmallCapacity;
\* every step of both tasks is eventually taken.
ReplayStep == ReplayStart \/ ReplayLineOn(SmallCapacity) \/ ReplaySendOn(SmallCapacity)

NextReplay == ReplayStep \/ TraderStep

SpecReplay ==
    Init /\ [][NextReplay]_vars /\ WF_vars(ReplayStep) /\ WF_vars(TraderStep)

\* The trader of oco_two_orders_and_slippage_sample: the aggregator fails for
\* every quote and swap, the local validator answers every call, and every
\* step of the trader task is eventually taken.
OcoStep ==
    \/ TraderStartOn({TRUE})
    \/ TraderTop
    \/ TraderRecv
    \/ TraderPoll
    \/ ExecBuildBuyOn({Nothing}, {TRUE})
    \/ ExecSendBuyOn({TRUE})
    \/ ExecConfirmOn({TRUE})
    \/ ExecBuildOcoOn({Nothing}, {TRUE})
    \/ ExecSendTpOn({TRUE})
    \/ ExecSendSlOn({TRUE})
    \/ ExecEmitSlip
    \/ ExecReturn

NextOco == EventArrives \/ OcoStep

SpecOco == Init /\ [][NextOco]_vars /\ WF_vars(OcoStep)

\* The trader with manual signals pushed while launch events keep arriving:
\* the aggregator, the RPC node and redis answer every call, every step of
\* the trader task is eventually taken, and so is the sleep branch of the
\* select when it stays enabled.
SignalStep ==
    \/ TraderStartOn({TRUE})
    \/ TraderTop
    \/ TraderRecv
    \/ TraderPollOn({TRUE})
    \/ ExecBuildBuyOn(Option(Prices), {TRUE})
    \/ ExecSendBuyOn({TRUE})
    \/ ExecConfirmOn({TRUE})
    \/ ExecBuildOcoOn(Option(Prices), {TRUE})
    \/ ExecSendTpOn({TRUE})
    \/ ExecSendSlOn({TRUE})
    \/ ExecEmitSlip
    \/ ExecReturn

NextSignals == SignalPushed \/ EventStream \/ SignalStep

\* The trader fed launch events that carry an lp of their own, with the
\* aggregator, the RPC node and redis answering every call.
NextGates == EventArrivesOf(GateEvents) \/ SignalStep

SpecGates == Init /\ [][NextGates]_vars

SpecSignals ==
    /\ Init
    /\ [][NextSignals]_vars
    /\ WF_vars(SignalStep)
    /\ WF_vars(TraderPollOn({TRUE}))

\* The trader next to the slippage sentinel that risk::run spawns: launch
\* events and manual signals go in, the aggregator quotes any of PipelinePrices
\* or fails, the buy can fail at every step, the exit legs are accepted, and
\* the samples go to the sentinel.
PipelinePrices == {2, 3}

PipelineStep ==
    \/ TraderStart
    \/ TraderTop
    \/ TraderRecv
    \/ TraderPoll
    \/ ExecBuildBuyOn(Option(PipelinePrices), BOOLEAN)
    \/ ExecSendBuy
    \/ ExecConfirm
    \/ ExecBuildOcoOn(Option(PipelinePrices), {TRUE})
    \/ ExecSendTpOn({TRUE})
    \/ ExecSendSlOn({TRUE})
    \/ ExecEmitSlip
    \/ ExecReturn

NextPipeline ==
    \/ RiskRun
    \/ SentinelStart
    \/ SentinelStep
    \/ EventArrives
    \/ SignalPushed
    \/ PipelineStep

SpecPipeline == Init /\ [][NextPipeline]_vars

\* One call of sign_and_send.
NextSend == SendCall \/ TipBlockhash \/ TipSend \/ TxSend

SpecSend == Init /\ [][NextSend]_vars

\* One call of wait_for_confirmation on a node whose slot counter keeps
\* advancing; every step of the function is eventually taken.
ConfirmStep == ConfirmCall \/ ConfirmPoll \/ ConfirmSlot \/ ConfirmSleep

NextConfirm == SlotAdvance \/ ConfirmStep

SpecConfirm ==
    Init /\ [][NextConfirm]_vars /\ WF_vars(SlotAdvance) /\ WF_vars(ConfirmStep)

(***************************************************************************)
(* Properties of execute_trade and trader::run, under SpecTrader.          *)
(***************************************************************************)
ExitEntries == {i \in DOMAIN exec_log : exec_log[i][2] \in {"tp", "sl"}}

BuyDoneBefore(i) ==
    \E a, b \in DOMAIN exec_log :
       /\ a < b
       /\ b < i
       /\ exec_log[a] = <<"sent", "buy">>
       /\ exec_log[b] = <<"confirmed", "buy">>

\* C1: in every execution of execute_trade, a take-profit or stop-loss leg is
\* built or submitted only after the buy was submitted and then confirmed; when
\* the buy submission or its confirmation failed, no exit leg is built or
\* submitted, and build_oco and the exit submissions are not entered.
C1_ExitsOnlyAfterConfirmedBuy ==
    /\ \A i \in ExitEntries : BuyDoneBefore(i)
    /\ (Did("rejected", "buy") \/ Did("unconfirmed", "buy")) => ExitEntries = {}
    /\ t_pc \in {"exec_oco", "exec_send_tp", "exec_send_sl", "exec_slip"}
          => BuyDoneBefore(Len(exec_log) + 1)

C1_Witness ==
    /\ Did("confirmed", "buy")
    /\ Did("sent", "tp")
    /\ Did("sent", "sl")

SlipsSent == Cardinality({i \in DOMAIN exec_log : exec_log[i][1] = "slip"})

ReachedOco == Did("confirmed", "buy") /\ t_pc # "exec_oco"

\* C2: an execution of execute_trade whose buy reached the OCO stage has sent
\* exactly one slippage sample by the time it is over (it returned, or its
\* task died), whatever became of the take-profit and stop-loss submissions.
C2_OneSampleOnceOver ==
    (ReachedOco /\ t_pc \in {"exec_return", "panicked"}) => SlipsSent = 1

StartedFrom(key) == started[<<key, "ws">>] + started[<<key, "redis">>]

\* C3 as stated: within one dedup window the trader starts processing at most
\* once for any (mint, creator), over launch events and manual signals alike.
C3_AtMostOncePerKey == \A key \in Keys : StartedFrom(key) <= 1

\* C3 as amended: within one dedup window the trader starts processing at most
\* once for any (mint, creator) over the launch events it receives, and the
\* keys started are those in the DedupSet; manual signals do not pass the dedup.
C3_AtMostOncePerEventKey ==
    \A key \in Keys :
       /\ started[<<key, "ws">>] <= 1
       /\ started[<<key, "ws">>] = 1 <=> key \in processed_events

C3_Witness ==
    \E key \in Keys :
       /\ started[<<key, "ws">>] = 1
       /\ started[<<key, Dup>>] = 1

(***************************************************************************)
(* Properties of the listener and the guards, under SpecKill.              *)
(***************************************************************************)
MatchingLabel(kind) ==
    CASE kind = EquityFloor -> "equity_floor"
      [] kind = SlippageKind -> "slippage"
      [] kind = PortfolioStopLoss -> "portfolio_stop_loss"

TotalIncrements ==
    killswitch_total["equity_floor"] + killswitch_total["slippage"]
       + killswitch_total["portfolio_stop_loss"]

\* C4: the listener acts on the first signal it receives only: once it has
\* received a signal, of any of the three kinds, killswitch_total stands at one
\* under the label matching that kind and at zero under the others, the
\* listener is on its way to exit, and the process exits with status 1.
C4_FirstSignalLabelledOnce ==
    /\ l_kind # None =>
          /\ killswitch_total[MatchingLabel(l_kind)] = 1
          /\ TotalIncrements = 1
          /\ l_pc \in {"sleep", "exited"}
    /\ l_kind = None => TotalIncrements = 0
    /\ l_pc = "exited" <=> exit_code = Some(1)

\* C5: a receive that reports the listener lagged leaves the listener
\* subscribed and waiting for the next signal.
C5_LaggedListenerRewaits ==
    [][(l_pc = "recv" /\ kill_lagged /\ ~kill_lagged') => l_pc' = "recv"]_vars

\* C6: once peak_equity is initialised by the first successful reading, no
\* step decreases it.
C6_PeakNeverDecreases == [][initialized => peak_equity' >= peak_equity]_vars

C6_Witness ==
    /\ initialized
    /\ sl_bal < peak_equity
    /\ sl_pc = "loop"

\* C7: at most one PortfolioStopLoss is sent per process; once it is sent the
\* portfolio guard's loop has ended.
C7_OnePortfolioStopLoss ==
    /\ kill_sent[PortfolioStopLoss] <= 1
    /\ kill_sent[PortfolioStopLoss] = 1 <=> sl_pc = "done"

C7_Witness ==
    /\ sl_pc = "done"
    /\ kill_sent[PortfolioStopLoss] = 1
    /\ kill_sent[EquityFloor] > 1

\* C10: when REDIS_URL is not set, risk::run has failed, none of the three
\* guards is spawned and the risk module has sent no kill-switch.
C10_NoGuardsWithoutRedisUrl ==
    redis_url = "unset" =>
       /\ risk_state = "failed"
       /\ eq_pc = "unspawned"
       /\ sl_pc = "unspawned"
       /\ ss_pc = "unspawned"
       /\ SumSent = 0

C10_Witness ==
    /\ redis_url = "unset"
    /\ risk_state = "failed"
    /\ l_pc = "ended"

(***************************************************************************)
(* Properties of the slippage sentinel, under SpecSlip.                    *)
(***************************************************************************)
\* C8: while fewer than 5 samples have been received the sentinel has sent no
\* Slippage kill-switch, whatever the samples and whatever k.
C8_NoBreachInWarmUp == sample_count < WarmUp => kill_sent[SlippageKind] = 0

C8_Witness ==
    /\ sample_count = WarmUp - 1
    /\ threshold > 0
    /\ slip < -threshold
    /\ kill_sent[SlippageKind] = 0

Sigma == StdDev(ema, ema2)

SampleTaken == sample_count' = sample_count + 1

SlippageSentNow == kill_sent'[SlippageKind] = kill_sent[SlippageKind] + 1

\* C9 as stated: for every sample s that is the 5th or later, if after the
\* update sigma > 0 and s < -k*sigma, a Slippage kill-switch is sent for it.
C9_TailSampleKills ==
    [][(SampleTaken /\ sample_count' >= WarmUp /\ Sigma' > 0 /\ slip' < -(k' * Sigma'))
          => SlippageSentNow]_vars

\* C9 as amended: for every sample s that is the 5th or later, if after the
\* update k*sigma > 0 and s < -k*sigma, a Slippage kill-switch is sent for it;
\* 29 samples of +0.001 then one of -0.5 with k = 2 produce one.
C9_TailSampleKillsPositiveThreshold ==
    [][(SampleTaken /\ sample_count' >= WarmUp /\ k' * Sigma' > 0 /\ slip' < -(k' * Sigma'))
          => SlippageSentNow]_vars

C9_Witness ==
    /\ harness = "s5"
    /\ sample_count = BenignRun + 1
    /\ slip = OutlierSample
    /\ k = DefaultK
    /\ kill_sent[SlippageKind] = 1

(***************************************************************************)
(* Properties of the equity-floor guard, under SpecEquityBreach.           *)
(***************************************************************************)
EquityFloorSentNow == kill_sent'[EquityFloor] = kill_sent[EquityFloor] + 1

EquityFloorObservable ==
    \/ l_kind = EquityFloor
    \/ \E i \in DOMAIN kill_q : kill_q[i] = EquityFloor

\* C11: every tick of the equity-floor guard that reads a balance below the
\* floor sends EquityFloor; the guard never leaves its loop, whether or not a
\* receiver is left; and with balance 100 below floor 300 and a subscribed
\* receiver, an EquityFloor signal eventually reaches that receiver.
C11_LowBalanceSendsAndIsObserved ==
    /\ [][(EquityTickLow /\ LowBalance < floor) => EquityFloorSentNow]_vars
    /\ [][eq_pc = "loop" => eq_pc' = "loop"]_vars
    /\ (eq_pc = "loop" /\ LowBalance < floor /\ l_pc = "recv" /\ SumSent = 0)
          ~> EquityFloorObservable

C11_Witness ==
    /\ eq_pc = "loop"
    /\ l_pc = "ended"
    /\ kill_sent[EquityFloor] > KillCapacity + 1

(***************************************************************************)
(* Oracle errors in the guards, under SpecKill.                            *)
(***************************************************************************)
EquityErrorTick == EquityTickOn({Nothing})

PortfolioErrorTick == PortfolioTickOn({Nothing})

OnlyPortfolioLoopEnds ==
    /\ [][eq_pc = "loop" => eq_pc' = "loop"]_vars
    /\ [][(sl_pc = "loop" /\ sl_pc' # "loop")
             => (sl_pc' = "done" /\ kill_sent'[PortfolioStopLoss] = 1
                    /\ kill_sent[PortfolioStopLoss] = 0)]_vars

\* C12 as stated: on a tick whose balance reading fails, each guard sends
\* nothing, leaves its state (floor; peak_equity and initialized) unchanged and
\* stays in its loop; the only guard loop that ends is the portfolio guard's,
\* and only after it sent PortfolioStopLoss.
C12_ErrorTickChangesNothing ==
    /\ [][EquityErrorTick => (UNCHANGED <<killVars, floor>> /\ eq_pc' = "loop")]_vars
    /\ [][PortfolioErrorTick
             => (UNCHANGED <<killVars, peak_equity, initialized>> /\ sl_pc' = "loop")]_vars
    /\ OnlyPortfolioLoopEnds

\* C12 as amended: on a tick whose balance reading fails, each guard sends
\* nothing and stays in its loop; the portfolio guard leaves peak_equity and
\* initialized unchanged, while the equity guard's floor may still be replaced
\* by the value read from risk:equity_floor on that tick; the only guard loop
\* that ends is the portfolio guard's, and only after it sent PortfolioStopLoss.
C12_ErrorTickSendsNothingAndRetries ==
    /\ [][EquityErrorTick => (UNCHANGED killVars /\ eq_pc' = "loop")]_vars
    /\ [][PortfolioErrorTick
             => (UNCHANGED <<killVars, peak_equity, initialized>> /\ sl_pc' = "loop")]_vars
    /\ OnlyPortfolioLoopEnds

C12_Witness ==
    /\ eq_pc = "loop"
    /\ floor # DefaultFloor
    /\ SumSent = 0
    /\ sl_pc = "loop"
    /\ initialized

(***************************************************************************)
(* Compliance and the gates of the launch-event branch, under SpecTrader.  *)
(***************************************************************************)
\* C13: the trader never calls execute_trade for an event whose mint or
\* creator is on the denylist, whichever inlet the event came from.
C13_NoTradeForDenylisted ==
    cur # Nothing
        => ~(is_sanctioned(Get(cur).mint) \/ is_sanctioned(Get(cur).creator))

EventReceived == events # <<>> /\ events' = Tail(events)

ExecuteTradeInvoked == t_pc' = "exec_build"

\* C14: when the trader takes a launch event from the events queue, it calls
\* execute_trade only if the event is not a duplicate of the window, was
\* enriched, scores above 0.5, has neither mint nor creator on the denylist,
\* has lp >= liquidity_threshold_usd and, on LetsBonk, has a mint containing
\* "bonk" in any letter case; otherwise the event is dropped, the trader is
\* back at the top of its loop and nothing has been submitted.
C14_TradeOnlyAfterAllGates ==
    [][EventReceived =>
          IF ExecuteTradeInvoked
          THEN /\ EventKey(Head(events)) \notin processed_events
               /\ cur' = Some([Head(events) EXCEPT !.lp = EnrichedLp])
               /\ Score(Get(cur')) > 5
               /\ Get(cur').mint \notin DENYLIST
               /\ Get(cur').creator \notin DENYLIST
               /\ Get(cur').lp >= liquidity_threshold_usd
               /\ (Get(cur').platform = LetsBonk
                      => \E i \in 1..(Len(Get(cur').mint) - 3) :
                            to_lowercase(SubSeq(Get(cur').mint, i, i + 3))
                                = <<"b", "o", "n", "k">>)
          ELSE /\ t_pc' = "top"
               /\ UNCHANGED <<cur, exec_log, trades_submitted, trades_confirmed>>]_vars

C14_Witness ==
    /\ t_pc = "exec_build"
    /\ cur # Nothing
    /\ Get(cur).platform = LetsBonk
    /\ Get(cur).mint = BoNk
    /\ Get(cur).creator = c1
    /\ started[<<EventKey(Get(cur)), "ws">>] = 1

Drained == ~events_open /\ events = <<>> /\ t_pc = "top"

SentNow(leg) == exec_log' = Append(exec_log, <<"sent", leg>>)

\* C18: with the aggregator failing for every quote and swap, a launch event
\* that passed all gates ends with its buy, take-profit and stop-loss all
\* submitted, each built by the noop fallback (price 0); every one of the three
\* submissions adds one to trades_submitted, and one slippage sample (0) is
\* put on the slippage channel.
C18_FallbackSubmitsThreeAndSamples ==
    /\ (t_pc = "exec_build")
          ~> (/\ t_pc = "exec_return"
              /\ result = "ok"
              /\ buy_price = 0
              /\ tp_price = 0
              /\ \A leg \in Legs : Did("built", leg) /\ Did("sent", leg)
              /\ Did("slip", "tp"))
    /\ [][\A leg \in Legs :
             SentNow(leg)
                 => trades_submitted'[PlatformOf] = trades_submitted[PlatformOf] + 1]_vars
    /\ [][exec_log' = Append(exec_log, <<"slip", "tp">>)
             => slippage_ch' = Append(slippage_ch, 0)]_vars

C18_Witness ==
    /\ t_pc = "exec_return"
    /\ result = "ok"
    /\ buy_price = 0
    /\ tp_price = 0
    /\ trades_submitted[PlatformOf] >= 3
    /\ Len(slippage_ch) >= 1

(***************************************************************************)
(* The classifier, under SpecScore.                                        *)
(***************************************************************************)
\* C15: the score of an event is 0.9 exactly when holders_60 >= 50 and
\* lp >= 0.5, both bounds included, and 0.1 otherwise; two events with the
\* same holders_60 and lp get the same score whatever their mint, creator and
\* platform, and whether or not a module was loaded in between.
C15_ScoreRule ==
    /\ [](scored # Nothing
            => score_out = IF Get(scored).holders_60 >= 50
                               /\ 10 * Get(scored).lp >= 5 * LpScale
                           THEN 9
                           ELSE 1)
    /\ [][(/\ scored # Nothing
           /\ scored' # Nothing
           /\ Get(scored').holders_60 = Get(scored).holders_60
           /\ Get(scored').lp = Get(scored).lp)
             => score_out' = score_out]_vars

C15_Witness ==
    /\ scored # Nothing
    /\ Get(scored).holders_60 = 50
    /\ 10 * Get(scored).lp = 5 * LpScale
    /\ Get(scored).platform = LetsBonk
    /\ wasm_module
    /\ score_out = 9

(***************************************************************************)
(* Frames of the log stream, under SpecFeed.                               *)
(***************************************************************************)
TextFrameRead == frames_read' = frames_read + 1 /\ frame' # Nothing

\* C19: when a subscriber reads a text frame longer than 65,536 bytes,
\* normalisation returns no event, nothing is put on the events channel, and
\* every subscriber is where it was: the reader is still in its read loop on
\* the same connection.
C19_OversizeFrameDroppedStreamGoesOn ==
    [][(TextFrameRead /\ Get(frame').len > 65536)
          => (/\ normalised' = Nothing
              /\ events' = events
              /\ ws_pc' = ws_pc
              /\ \E p \in Platform : ws_pc'[p] = "reading")]_vars

C19_Witness ==
    /\ frame # Nothing
    /\ Get(frame).len = 65537
    /\ Get(frame).logs = GoodLogs
    /\ normalised = Nothing
    /\ \E p \in Platform : ws_pc[p] = "reading"
    /\ frames_read < MaxFrames

\* C20: every LaunchEvent that normalise_message returns, and so every event
\* a subscriber puts on the events channel, has a non-empty mint and a
\* non-empty creator.
C20_EmittedEventsNameMintAndCreator ==
    /\ normalised # Nothing
          => (Get(normalised).mint # <<>> /\ Get(normalised).creator # <<>>)
    /\ \A i \in DOMAIN events : events[i].mint # <<>> /\ events[i].creator # <<>>

HasLine(raw, prefix) == \E i \in DOMAIN raw.logs : raw.logs[i].prefix = prefix

Acceptable(raw) ==
    /\ raw.len <= 65536
    /\ raw.json
    /\ raw.method = "logsNotification"
    /\ raw.err_null
    /\ \E i \in DOMAIN raw.logs : raw.logs[i] = Initialize2
    /\ HasLine(raw, "mint")
    /\ HasLine(raw, "creator")
    /\ \A i \in DOMAIN raw.logs :
          /\ raw.logs[i].prefix = "holders_60"
                => Get(extract_from_log(raw.logs[i], "holders_60")) = <<"5", "0">>
          /\ raw.logs[i].prefix = "lp"
                => Get(extract_from_log(raw.logs[i], "lp")) = <<"1", ".", "5">>

\* C21: a frame that is a logsNotification with err null, the launch
\* indicator, a mint line and a creator line is normalised to a LaunchEvent
\* even when its holders_60 line or its lp line is missing, the missing field
\* being 0 (the lines that are there carry the numbers 50 and 1.5).
C21_MissingFieldsDefaultToZero ==
    (frame # Nothing /\ Acceptable(Get(frame)))
        => /\ normalised # Nothing
           /\ ~HasLine(Get(frame), "holders_60") => Get(normalised).holders_60 = 0
           /\ ~HasLine(Get(frame), "lp") => Get(normalised).lp = 0

(***************************************************************************)
(* A full events channel, under SpecBackPressure.                          *)
(***************************************************************************)
\* C22: a full events channel never blocks a subscriber: no subscriber is
\* ever waiting inside a send, and the channel never holds more events than
\* its capacity.
C22_FullQueueNeverBlocksSubscriber ==
    /\ \A p \in Platform : ws_pc[p] # "sending"
    /\ Len(events) <= SmallCapacity

(***************************************************************************)
(* The subscriber tasks never end, under SpecFeed.                         *)
(***************************************************************************)
\* C23: a subscriber task is always connecting, subscribed, reading, sending
\* or sleeping before its next attempt, never ended; after a failed
\* connection, a frame error, a close frame or the end of the stream it sleeps
\* and then connects again, and the attempt is made.
C23_SubscriberRunsForever ==
    /\ [](\A p \in Platform :
             ws_pc[p] \in {"connect", "ack", "reading", "sending", "retry"})
    /\ [][\A p \in Platform :
             (ws_pc[p] \in {"connect", "reading"}
                 /\ ws_pc'[p] \notin {ws_pc[p], "ack", "reading", "sending"})
                => ws_pc'[p] = "retry"]_vars
    /\ \A p \in Platform : (ws_pc[p] = "retry") ~> (ws_pc[p] = "connect")
    /\ \A p \in Platform : (ws_pc[p] = "connect") ~> (ws_pc[p] \in {"ack", "retry"})

C23_Witness ==
    /\ ws_pc[PumpFun] = "connect"
    /\ ws_pc[LetsBonk] = "retry"
    /\ frames_read = MaxFrames

(***************************************************************************)
(* The replay loader, under SpecReplay.                                    *)
(***************************************************************************)
Readable(file) == file.opens /\ \A i \in DOMAIN file.lines : file.lines[i].ok

RECURSIVE Decoded(_)
Decoded(lines) ==
    IF lines = <<>>
    THEN <<>>
    ELSE IF Head(lines).ev # Nothing
         THEN <<Get(Head(lines).ev)>> \o Decoded(Tail(lines))
         ELSE Decoded(Tail(lines))

\* C24: for a .json or .jsonl file that can be read, run_replay does not
\* return an error, and when it has returned (the trader still holding the
\* receiver) it has delivered the event of every decodable line, in file
\* order; the events channel never holds more than its capacity.
C24_ReplaySendsEveryLineAndReturnsOk ==
    /\ Len(events) <= SmallCapacity
    /\ (rp_pc # "idle" /\ rp_ext \in {"json", "jsonl"} /\ Readable(rp_file))
          => /\ rp_pc # "returned_err"
             /\ (rp_pc = "returned_ok" /\ ~ReceiverGone)
                   => rp_sent = Decoded(rp_file.lines)

\* the trader task is parked at an await: the select of the loop, the balance
\* and swap requests, build_oco, the send of the slippage sample
AtAwait == t_pc \in {"select", "exec_build", "exec_oco", "exec_slip"}

\* C25: at every await inside the event loop and inside execute_trade the
\* trader holds no guard on RISK_CONFIG.
C25_NoGuardAcrossAwait == AtAwait => guards = 0

(***************************************************************************)
(* Properties of the trader next to the sentinel, under SpecPipeline.      *)
(***************************************************************************)
SignalPopped == trade_signals # <<>> /\ trade_signals' = Tail(trade_signals)

\* the event taken from the queue is its oldest one: it is the one counted
\* as started or as a duplicate, and the one execute_trade is called with
HeadHandled ==
    LET key == EventKey(Head(events))
    IN /\ started' \in {Started(key, Dup), Started(key, "ws")}
       /\ cur' # Nothing => cur' = Some(enrich_event(Head(events)))

\* the sentinel takes the oldest sample of the channel and counts it
HeadSampled ==
    /\ slippage_ch # <<>>
    /\ slippage_ch' = Tail(slippage_ch)
    /\ slip' = Head(slippage_ch)
    /\ sample_count' = sample_count + 1

\* C26: the trader handles one event at a time: while one event (launch
\* event or manual signal) is being executed no other one is taken from
\* either inlet, launch events are taken in the order they were enqueued, and
\* the sentinel updates its state with the samples in the order the trader
\* sent them.
C26_OneEventAtATimeInOrder ==
    [][/\ cur # Nothing => ~EventReceived /\ ~SignalPopped
       /\ (cur' # cur /\ cur' # Nothing)
             => cur = Nothing /\ (EventReceived \/ SignalPopped)
       /\ ~(EventReceived /\ SignalPopped)
       /\ events' # events
             => \/ EventReceived /\ HeadHandled
                \/ \E e \in FeedEvents : events' = Append(events, e)
       /\ slippage_ch' # slippage_ch
             => \/ HeadSampled
                \/ /\ Len(slippage_ch') = Len(slippage_ch) + 1
                   /\ SubSeq(slippage_ch', 1, Len(slippage_ch)) = slippage_ch]_vars

C26_Witness ==
    /\ arrived = 1
    /\ pushed = 1
    /\ cur = Nothing
    /\ sample_count = 2
    /\ ema # slip

(***************************************************************************)
(* Properties of sign_and_send, under SpecSend.                            *)
(***************************************************************************)
SentTo(sends) == [i \in DOMAIN sends |-> sends[i][1]]

AcceptedAt(sends) == {i \in DOMAIN sends : sends[i][2]}

EveryEndpointRejected ==
    /\ Len(tx_sent) = Len(s_urls)
    /\ AcceptedAt(tx_sent) = {}

\* C27: when sign_and_send has returned, the transaction was sent to every
\* endpoint of the list, in list order and whatever the earlier outcomes; the
\* result is the signature of the first endpoint that accepted; and it is an
\* error if and only if every endpoint rejected.
C27_SendsToAllReturnsFirstAccepted ==
    s_pc = "returned"
       => /\ SentTo(tx_sent) = s_urls
          /\ \A i \in AcceptedAt(tx_sent) :
                (\A j \in AcceptedAt(tx_sent) : i <= j) => s_result = Some(s_urls[i])
          /\ s_result = Nothing <=> EveryEndpointRejected

\* C28: with TRADE_TIP > 0 the tip transaction has gone to every endpoint
\* before the real transaction goes to any, and whatever happened to the tip
\* the real transaction is sent to every endpoint and the call fails only
\* when every endpoint rejected it.
C28_TipFirstAndNeverInTheWay ==
    tip_lamports > 0
       => /\ tx_sent # <<>> => SentTo(tip_sent) = s_urls
          /\ s_pc = "returned"
                => /\ SentTo(tx_sent) = s_urls
                   /\ s_result = Nothing => EveryEndpointRejected

(***************************************************************************)
(* Properties of wait_for_confirmation, under SpecConfirm.                 *)
(***************************************************************************)
Advanced == saturating_sub(current, start_slot)

\* C29: wait_for_confirmation returns Ok as soon as a poll is positive, and
\* only then; it returns the timeout error when, after a negative poll, the
\* slot counter is found more than MAX_CONFIRMATION_SLOTS past the starting
\* slot, and never while the advance is MAX_CONFIRMATION_SLOTS or less, in
\* which case it polls again; and on a node whose slot counter keeps
\* advancing every call returns.
C29_ConfirmedOrTimedOut ==
    /\ [](polled = "confirmed" <=> w_result = "ok")
    /\ [](w_result = "ok" => w_pc = "returned")
    /\ [](w_result = "timeout"
             => /\ w_pc = "returned"
                /\ polled = "pending"
                /\ Advanced > MAX_CONFIRMATION_SLOTS)
    /\ [](w_pc = "sleep" => Advanced <= MAX_CONFIRMATION_SLOTS)
    /\ [][w_pc = "slot" /\ current' # current /\ Advanced' > MAX_CONFIRMATION_SLOTS
             => w_result' = "timeout"]_vars
    /\ (w_pc = "poll") ~> (w_pc = "returned")

C29_Witness ==
    /\ w_result = "timeout"
    /\ start_slot = MaxStartSlot
    /\ current = start_slot + MAX_CONFIRMATION_SLOTS + 1

(***************************************************************************)
(* The endpoints of the exit legs, under SpecTrader.                       *)
(***************************************************************************)
\* the list handed to sign_and_send holds the primary endpoint and, when
\* SOLANA_RPC_URLS names secondaries, every one of them
PrimaryAndSecondaries ==
    /\ Primary \in Range(rpc_urls)
    /\ \/ rpc_urls = <<Primary>>
       \/ \E l \in SecondaryLists : Range(l) \subseteq Range(rpc_urls)

\* C30: whatever SOLANA_RPC_URLS holds, a take-profit or stop-loss leg that
\* was submitted went to the primary endpoint and to every secondary one.
C30_ExitLegsReachPrimaryAndSecondaries ==
    \A leg \in {"tp", "sl"} : Did("sent", leg) => PrimaryAndSecondaries

(***************************************************************************)
(* The stop test of the portfolio guard, under SpecKill.                   *)
(***************************************************************************)
StopLossSent == kill_sent'[PortfolioStopLoss] = kill_sent[PortfolioStopLoss] + 1

\* a successful reading: it is kept in sl_bal, the peak becomes the reading
\* when it is the first one and else the larger of peak and reading, and
\* PortfolioStopLoss is sent exactly when the reading is strictly below
\* peak_equity * (1 - pct / 100)
ReadingHandled ==
    /\ initialized'
    /\ peak_equity' = IF initialized THEN Max(peak_equity, sl_bal') ELSE sl_bal'
    /\ StopLossSent <=> sl_bal' * 100 < peak_equity' * (100 - stop_loss_percent)

\* C31: a tick of the portfolio guard either fails to read the balance and
\* changes nothing, or handles the reading: peak_equity is the maximum of the
\* successful readings so far, the first one initialising it to itself, and
\* PortfolioStopLoss is sent if and only if the reading is strictly below
\* peak_equity * (1 - pct / 100); no other step sends PortfolioStopLoss.
C31_StopLossIffBelowStopLevel ==
    [][/\ PortfolioTick
             => \/ UNCHANGED <<peak_equity, initialized, sl_bal, sl_pc, kill_sent>>
                \/ ReadingHandled
       /\ kill_sent'[PortfolioStopLoss] # kill_sent[PortfolioStopLoss]
             => PortfolioTick /\ ReadingHandled]_vars

C31_Witness ==
    /\ sl_pc = "done"
    /\ stop_loss_percent = DefaultStopLossPercent
    /\ peak_equity = 400
    /\ sl_bal = 100
    /\ kill_sent[PortfolioStopLoss] = 1

(***************************************************************************)
(* The manual signals under launch-event traffic, under SpecSignals.       *)
(***************************************************************************)
IsBuy(sg) == sg # Nothing /\ Get(sg).action = "buy"

\* C32: every signal pushed to trade_signals is eventually popped, launch
\* events arriving or not; a popped signal is passed to execute_trade when
\* its action is "buy", and consumed without a trade when it carries another
\* action or does not parse.
C32_SignalsPolledWhateverTheTraffic ==
    /\ [][SignalPopped => (ExecuteTradeInvoked <=> IsBuy(Head(trade_signals)))]_vars
    /\ (trade_signals # <<>>) ~> (trade_signals = <<>>)

(***************************************************************************)
(* The exit legs and the metrics of a trade, under SpecTrader.             *)
(***************************************************************************)
\* C33: when execute_trade has finished for an event whose buy was
\* confirmed, both the take-profit and the stop-loss leg were submitted.
C33_ConfirmedBuyHasBothExits ==
    (t_pc = "exec_return" /\ Did("confirmed", "buy"))
       => Did("sent", "tp") /\ Did("sent", "sl")

(***************************************************************************)
(* The breach of the portfolio guard and the listener, under SpecKill.     *)
(***************************************************************************)
\* C34: once the portfolio guard has detected a breach and sent its one
\* signal, the listener task is receiving, about to exit or has exited with
\* status 1: it has not ended with the process left running.
C34_PortfolioBreachNeverLeftRunning ==
    sl_pc = "done" => /\ l_pc \in {"recv", "sleep", "exited"}
                      /\ l_pc = "exited" => exit_code = Some(1)

(***************************************************************************)
(* The dedup set of trader::run, under SpecTrader.                         *)
(***************************************************************************)
HeadKey == EventKey(Head(events))

\* C35: the pair of a launch event taken from the queue is in the dedup set
\* from that step on, whether or not the event then passes the gates and
\* whether or not its trade succeeds: nothing but a flush at the top of the
\* loop takes it out, and an event whose pair is in the set is skipped.
C35_KeyRecordedBeforeTheGates ==
    [][/\ EventReceived => HeadKey \in processed_events'
       /\ (EventReceived /\ HeadKey \in processed_events)
             => ~ExecuteTradeInvoked /\ started' = Started(HeadKey, Dup)
       /\ t_pc # "top" => processed_events \subseteq processed_events']_vars

C35_Witness ==
    \E key \in Keys :
       /\ key \in processed_events
       /\ started[<<key, "ws">>] = 1
       /\ started[<<key, Dup>>] = 1
       /\ \A p \in Platform : trades_submitted[p] = 0

\* C36: the dedup set changes either by gaining the one pair of the launch
\* event just taken from the queue, or by losing all its entries at once at
\* the top of a loop iteration, where no event is in its pipeline.
C36_DedupSetGrowsUntilFlushed ==
    [][processed_events' # processed_events
          => \/ /\ EventReceived
                /\ processed_events' = processed_events \cup {HeadKey}
             \/ /\ processed_events' = {}
                /\ t_pc = "top"
                /\ cur = Nothing]_vars

C36_Witness ==
    /\ arrived = MaxInputs
    /\ events = <<>>
    /\ processed_events = {}
    /\ t_pc = "select"

(***************************************************************************)
(* The classify and liquidity gates after enrichment, under SpecGates.     *)
(***************************************************************************)
OtherGatesPass(e) ==
    /\ EventKey(e) \notin processed_events
    /\ ~is_sanctioned(e.creator)
    /\ ~is_sanctioned(e.mint)
    /\ PlatformGuard(e)

\* C37: a launch event that the dedup check, the denylist and the platform
\* guard let through is traded exactly when its holders_60 is at least 50 and
\* liquidity_threshold_usd is at most 20000, whatever lp it carried when it
\* was enqueued; the event execute_trade gets carries lp 20000.
C37_GatesIgnoreTheCarriedLp ==
    [][(EventReceived /\ OtherGatesPass(Head(events)))
          => /\ ExecuteTradeInvoked
                   <=> /\ Head(events).holders_60 >= 50
                       /\ liquidity_threshold_usd <= 20000 * LpScale
             /\ ExecuteTradeInvoked
                   => cur' = Some([Head(events) EXCEPT !.lp = 20000 * LpScale])]_vars

C37_Witness ==
    /\ cur # Nothing
    /\ Get(cur).creator = c1
    /\ Get(cur).lp = 20000 * LpScale
    /\ liquidity_threshold_usd = 10000 * LpScale
    /\ Did("confirmed", "buy")

(***************************************************************************)
(* The subscription's confirmation, under SpecFeed.                        *)
(***************************************************************************)
Connected(p) == ws_pc[p] = "connect" /\ ws_pc'[p] \notin {"connect", "retry"}

FirstFrameTaken(p) == ws_pc[p] = "ack" /\ ws_pc'[p] # "ack"

\* C38: after each connection a subscriber first takes one frame as the
\* confirmation of the subscription: that frame is not normalised and puts
\* no event on the channel, launch notification or not; every text frame read
\* afterwards on the connection is normalised.
C38_FirstFrameIsTheConfirmation ==
    [][/\ \A p \in Platform : Connected(p) => ws_pc'[p] = "ack"
       /\ \A p \in Platform :
             FirstFrameTaken(p) => /\ ws_pc'[p] = "reading"
                                   /\ normalised' = Nothing
                                   /\ events' = events
       /\ TextFrameRead
             => \E p \in Platform :
                   /\ ws_pc[p] = "reading"
                   /\ normalised' = normalise_message(Get(frame'), p)]_vars

C38_Witness ==
    /\ confirmation = Some(GoodFrame)
    /\ ws_pc[PumpFun] = "reading"
    /\ frames_read = 1
    /\ events = <<>>

(***************************************************************************)
(* The lock of RISK_CONFIG, under SpecTrader.                              *)
(***************************************************************************)
GuardsTaken == guards' > guards

\* C39: the configuration is rewritten only by the trader task at the top of
\* its loop, where the task holds no read guard on RISK_CONFIG; read guards
\* are taken by the trader task alone, in the step that takes an event or a
\* signal from its inlet and calls execute_trade, and are all released when
\* the task is back at the top of its loop, so that no read and no refresh
\* waits for a guard that is never released.
C39_RefreshWithNoGuardHeld ==
    /\ [](t_pc = "top" => guards = 0)
    /\ [][liquidity_threshold_usd' # liquidity_threshold_usd
             => t_pc = "top" /\ guards = 0]_vars
    /\ [][GuardsTaken
             => t_pc = "select" /\ ExecuteTradeInvoked /\ (EventReceived \/ SignalPopped)]_vars

C39_Witness ==
    /\ t_pc = "select"
    /\ pushed = 0
    /\ trades_confirmed[PumpFun] = 1
    /\ liquidity_threshold_usd = 30000 * LpScale

(***************************************************************************)
(* The trade counters, under SpecTrader.                                   *)
(***************************************************************************)
SendingPc(leg) ==
    CASE leg = "buy" -> "exec_send_buy"
      [] leg = "tp" -> "exec_send_tp"
      [] leg = "sl" -> "exec_send_sl"

Total(counter) == counter[PumpFun] + counter[LetsBonk]

\* C40: trades_confirmed never exceeds trades_submitted; trades_confirmed
\* goes up by one, when the buy of the running execute_trade is confirmed, and
\* so at most once per execution and never for an exit leg; trades_submitted
\* goes up only when sign_and_send has returned the signature of an endpoint
\* that accepted the leg.
C40_ConfirmedNeverAboveSubmitted ==
    /\ [](\A p \in Platform : trades_confirmed[p] <= trades_submitted[p])
    /\ [][trades_confirmed' # trades_confirmed
             => /\ Total(trades_confirmed') = Total(trades_confirmed) + 1
                /\ t_pc = "exec_confirm"
                /\ ~Did("confirmed", "buy")
                /\ exec_log' = Append(exec_log, <<"confirmed", "buy">>)]_vars
    /\ [][trades_submitted' # trades_submitted
             => /\ Total(trades_submitted') = Total(trades_submitted) + 1
                /\ \E leg \in Legs :
                      /\ t_pc = SendingPc(leg)
                      /\ exec_log' = Append(exec_log, <<"sent", leg>>)]_vars

C40_Witness ==
    /\ t_pc = "exec_oco"
    /\ trades_submitted[PumpFun] = 1
    /\ trades_confirmed[PumpFun] = 1


====
